---- MODULE Spec2Model ----
(***************************************************************************)
(* Model of the dashboard. The repository update poller: the tracked       *)
(* repository list held by App, the RepositoryList component with its      *)
(* runUpdateCheck routine (timer, mount and manual triggers), the per-item *)
(* check checkRepositoryUpdate with its local-time freshness window,       *)
(* AddRepositoryForm.handleSubmit with App.handleAddRepo, and the GitHub   *)
(* release data and clock the checks read. The AI callers of geminiService *)
(* (fetchAndSummarizeNews, generateTagsForNewsSource, searchYouTubeVideos) *)
(* with the array extraction they share and YouTubePanel.executeSearch.    *)
(* The article accumulator of NewsDisplay. The tag normalization, the      *)
(* AddNewsSourceForm with App's news sources, the tag list of YouTubePanel *)
(* and the chat: ChatWidget.handleSendMessage with streamChatResponse and  *)
(* the relay's event stream. Each part has a specification of its own, in  *)
(* which the variables of the other parts keep their initial values.       *)
(***************************************************************************)
EXTENDS Integers, Sequences, FiniteSets, TLC

\* ------------------------------------------------------------------ bounds
MaxTracked == 2      \* entries the tracked list may hold
MaxChecks == 2       \* update checks started in one behaviour
MaxWindows == 1      \* freshness windows the clock advances by
MaxReleases == 1     \* releases published on GitHub in one behaviour

\* ------------------------------------------------------- program constants
FreshnessDays == 3            \* threeDaysAgo.setDate(getDate() - 3)
MsPerDay == 86400000          \* one calendar day of a JS Date, in ms
MsPerHour == 3600000          \* one hour of a JS Date, in ms
MsPerSecond == 1000           \* one second of a JS Date, in ms

VARIABLES
    repositories,   \* App: useLocalStorage('repositories'), a sequence of Repository
    mounted,        \* the Repositories tab (AddRepositoryForm + RepositoryList) is rendered
    isChecking,     \* RepositoryList: useState(true)
    savedCallback,  \* the `repositories` captured by savedCallback.current
    checks,         \* the runUpdateCheck invocations started so far
    upstream,       \* GitHub: releases of each repository, newest first
    published,      \* GitHub: number of releases published so far
    now,            \* wall clock, ms
    acked,          \* history: <<id, release>> pairs the user marked as seen
    checkedAt,      \* history: per id, the time of the lookup merged last, or -1
    last,           \* history: the merge or acknowledgment the latest step performed
    startedBy,      \* history: per check, what called runUpdateCheck
    tz,             \* the browser's time zone: where its UTC offset changes, and by how much
    clock,          \* one check on its own: new Date() at the check
    released,       \* one check on its own: what fetchLatestRelease returned
    checked,        \* one check on its own: what checkRepositoryUpdate resolved with
    mergedFirst,    \* history: the tracked list and the batch of the first merge
    response,       \* the text the AI answered with, and how it was put together
    variant,        \* which geminiService the build links: "proxy" or "direct"
    arrived,        \* per caller of the AI: "unasked", "pending", "arrived" or "failed"
    newsResult,     \* what fetchAndSummarizeNews resolved with
    tagsResult,     \* what generateTagsForNewsSource resolved with
    videos,         \* YouTubePanel: useState([])
    searchError,    \* YouTubePanel: error, useState(null)
    searchLoading,  \* YouTubePanel: isLoading, useState(false)
    hasSearched,    \* YouTubePanel: useState(false)
    newsShown,      \* the News tab (NewsDisplay) is rendered
    articles,       \* NewsDisplay: articles, per source id; <<>> is undefined
    loadingSources, \* NewsDisplay: loadingSources, per source id
    pendingFetches, \* fetchNewsForSource calls awaiting the AI, per source and kind
    refreshes,      \* times the hourly interval called refreshAllNews
    newsLast,       \* history: the fetch that completed last
    formUrl,        \* AddRepositoryForm: url; <<>> is the empty string
    formError,      \* AddRepositoryForm: error, useState(null)
    formIsLoading,  \* AddRepositoryForm: isLoading
    formPending,    \* the fetchRepoDetails call the form awaits, if any
    submits,        \* history: times handleSubmit was entered
    detailsRequests, \* history: times fetchRepoDetails was called
    tagText,        \* a tag as the AI spelled it
    tagStage,       \* times the tag has gone through the normalization
    tagOut,         \* the tag after each normalization
    newsSources,    \* App: useLocalStorage('newsSources'), a sequence of NewsSource
    srcUrl,         \* AddNewsSourceForm: url; <<>> is the empty string
    srcError,       \* AddNewsSourceForm: error
    srcIsLoading,   \* AddNewsSourceForm: isLoading
    srcStep,        \* AddNewsSourceForm: step, "input" or "tags"
    srcSuggested,   \* AddNewsSourceForm: suggestedTags
    srcSelected,    \* AddNewsSourceForm: selectedTags, in insertion order
    srcPending,     \* the generateTagsForNewsSource call the form awaits, if any
    srcTagRequests, \* history: times generateTagsForNewsSource was called
    srcLast,        \* history: the submits of the URL form so far and what the latest did
    tubeTags,       \* YouTubePanel: useLocalStorage('youtubeTags'), a sequence of YouTubeTag
    newTag,         \* YouTubePanel: newTag
    tubeLast,       \* history: the field values submitted so far and the removals
    dateNow,        \* Date.now(), from which the ids of sources, tags and messages are made
    chatBuild,      \* ChatWidget: which streamChatResponse is built in, "proxy" or "direct"
    chatMessages,   \* ChatWidget: messages, a sequence of ChatMessage
    chatInput,      \* ChatWidget: input
    chatIsLoading,  \* ChatWidget: isLoading
    isThinkingMode, \* ChatWidget: isThinkingMode
    chatPhase,      \* where handleSendMessage stands: "idle", "thinking" or "streaming"
    chatModelId,    \* handleSendMessage: modelMessage.id
    currentText,    \* handleSendMessage: currentText
    toWrite,        \* the chunks the SDK stream has yet to give
    wire,           \* what the relay has written and no read has returned yet
    chatLines,      \* streamChatResponse: the lines of the current read still to be looked at
    chatWritten,    \* history: the payloads of the frames of this response
    chatEvents      \* history: what the consumer did with each data line of this response

pollerVars == <<repositories, mounted, isChecking, savedCallback, checks,
                upstream, published, now, acked, checkedAt, last>>

\* the variables outside the update poller, and the values they keep while a
\* specification does not exercise their part of the program
freshVars == <<tz, clock, released, checked>>
extractVars == <<response, variant, arrived, newsResult, tagsResult,
                 videos, searchError, searchLoading, hasSearched>>
newsVars == <<newsShown, articles, loadingSources, pendingFetches, refreshes, newsLast>>
formVars == <<formUrl, formError, formIsLoading, formPending, submits, detailsRequests>>
tagVars == <<tagText, tagStage, tagOut>>
sourceVars == <<newsSources, srcUrl, srcError, srcIsLoading, srcStep, srcSuggested,
                srcSelected, srcPending, srcTagRequests, srcLast>>
tubeVars == <<tubeTags, newTag, tubeLast>>
chatVars == <<chatBuild, chatMessages, chatInput, chatIsLoading, isThinkingMode, chatPhase,
              chatModelId, currentText, toWrite, wire, chatLines, chatWritten, chatEvents>>
moreVars == <<tagVars, sourceVars, tubeVars, dateNow, chatVars>>
otherVars == <<freshVars, extractVars, newsVars, formVars, moreVars>>
restVars == <<otherVars, mergedFirst>>

vars == <<pollerVars, startedBy, restVars>>

\* ------------------------------------------------------------- GitHub data
RepoIds == {1, 2}

\* the repositories that publish releases
Releasing == {1}

\* canonical full_name of each GitHub repository, as <<owner, repo>>
CanonicalName(id) == IF id = 1 THEN <<"acme", "app">> ELSE <<"acme", "lib">>

\* String.toLowerCase on the path segments used here (GitHub resolves
\* owner/repo case-insensitively)
Lower(s) ==
    CASE s = "Acme" -> "acme"
      [] s = "App" -> "app"
      [] OTHER -> s

\* new URL(url): its hostname and pathname.split('/').filter(Boolean)
Url(host, parts) == [valid |-> TRUE, hostname |-> host, pathParts |-> parts]
\* a string new URL() throws on
BadUrl == [valid |-> FALSE, hostname |-> "", pathParts |-> <<>>]

\* details.html_url of a GitHub repository
HtmlUrl(id) == Url("github.com", CanonicalName(id))

\* an optional value: <<>> is absent, <<v>> is present
Absent == <<>>
Some(v) == <<v>>

\* parseRepoUrl: null (Absent) or {owner, repo}
parseRepoUrl(url) ==
    IF ~url.valid THEN Absent
    ELSE IF url.hostname # "github.com" THEN Absent
    ELSE IF Len(url.pathParts) >= 2
         THEN Some([owner |-> url.pathParts[1], repo |-> url.pathParts[2]])
         ELSE Absent

\* GET /repos/{owner}/{repo}: the repository the name resolves to, if any
ResolveRepo(owner, repo) ==
    { id \in RepoIds : CanonicalName(id) = <<Lower(owner), Lower(repo)>> }

\* fetchLatestRelease: releases[0] or null
fetchLatestRelease(releases) ==
    IF Len(releases) > 0 THEN Some(releases[1]) ELSE Absent

\* ------------------------------------------------------------ local time
\* a zone whose UTC offset never changes
NoShift == [at |-> 0, shift |-> 0]

\* LocalTZA: the zone's UTC offset at instant u, less its offset before the
\* change
LocalTZA(z, u) == IF u >= z.at THEN z.shift ELSE 0

\* LocalTime(u): what getFullYear() .. getMilliseconds() read at instant u
LocalTime(z, u) == u + LocalTZA(z, u)

\* UTC(local): the instant a local reading stands for; a reading the change
\* skips or repeats is taken with the offset before the change
UTC(z, local) ==
    IF local - z.shift >= z.at /\ ~(local < z.at)
    THEN local - z.shift
    ELSE local

\* d.setDate(d.getDate() + days): the day of the month moves, the local time
\* of day stays
setDate(z, u, days) == UTC(z, LocalTime(z, u) + days * MsPerDay)

\* the values the variables of a single check keep elsewhere
FreshOff ==
    /\ tz = NoShift
    /\ clock = 0
    /\ released = <<>>
    /\ checked = <<>>

\* the callers of the AI
Callers == {"news", "tags", "search"}

\* the values the variables of the AI callers keep elsewhere
ExtractOff ==
    /\ response = [text |-> <<>>, array |-> <<>>, prose |-> <<>>, fenced |-> FALSE]
    /\ variant = "proxy"
    /\ arrived = [c \in Callers |-> "unasked"]
    /\ newsResult = <<>>
    /\ tagsResult = <<>>
    /\ videos = <<>>
    /\ searchError = <<>>
    /\ searchLoading = FALSE
    /\ hasSearched = FALSE

\* the news sources App hands to NewsDisplay
SourceIds == {"s1", "s2"}

\* no fetch completed yet
NoFetch == [source |-> "", background |-> FALSE, ok |-> FALSE,
            fetched |-> <<>>, before |-> <<>>]

\* NewsDisplay not rendered
NewsOff ==
    /\ newsShown = FALSE
    /\ articles = [s \in SourceIds |-> <<>>]
    /\ loadingSources = [s \in SourceIds |-> FALSE]
    /\ pendingFetches = [p \in SourceIds \X BOOLEAN |-> 0]
    /\ refreshes = 0
    /\ newsLast = NoFetch

\* AddRepositoryForm as useState leaves it
FormOff ==
    /\ formUrl = <<>>
    /\ formError = <<>>
    /\ formIsLoading = FALSE
    /\ formPending = <<>>
    /\ submits = 0
    /\ detailsRequests = 0

\* no tag under normalization
TagOff ==
    /\ tagText = <<>>
    /\ tagStage = 0
    /\ tagOut = <<>>

\* AddNewsSourceForm as useState leaves it, no source tracked
SourceOff ==
    /\ newsSources = <<>>
    /\ srcUrl = <<>>
    /\ srcError = <<>>
    /\ srcIsLoading = FALSE
    /\ srcStep = "input"
    /\ srcSuggested = <<>>
    /\ srcSelected = <<>>
    /\ srcPending = <<>>
    /\ srcTagRequests = 0
    /\ srcLast = "none"

\* YouTubePanel without tags
TubeOff ==
    /\ tubeTags = <<>>
    /\ newTag = <<>>
    /\ tubeLast = <<>>

ChatOff ==
    /\ chatBuild = "proxy"
    /\ chatMessages = <<>>
    /\ chatInput = <<>>
    /\ chatIsLoading = FALSE
    /\ isThinkingMode = FALSE
    /\ chatPhase = "idle"
    /\ chatModelId = 0
    /\ currentText = <<>>
    /\ toWrite = <<>>
    /\ wire = <<>>
    /\ chatLines = <<>>
    /\ chatWritten = <<>>
    /\ chatEvents = <<>>

MoreOff ==
    /\ TagOff
    /\ SourceOff
    /\ TubeOff
    /\ dateNow = 0
    /\ ChatOff

OtherOff ==
    /\ FreshOff
    /\ ExtractOff
    /\ NewsOff
    /\ FormOff
    /\ MoreOff

RestOff ==
    /\ OtherOff
    /\ mergedFirst = <<>>

\* ------------------------------------------------------ per-item check
\* mutant: a release counts as an update only while it is not the one the
\* entry already records
checkRepositoryUpdate_NewSinceLast(repository, fetched, t) ==
    IF parseRepoUrl(repository.url) = Absent
    THEN [rejected |-> FALSE, value |-> repository]
    ELSE IF ~fetched.ok
    THEN [rejected |-> FALSE, value |-> [repository EXCEPT !.hasUpdate = FALSE]]
    ELSE IF fetched.release # Absent
    THEN LET snapshot == Some([name |-> fetched.release[1].name,
                               tagName |-> fetched.release[1].tag_name,
                               publishedAt |-> fetched.release[1].published_at,
                               url |-> fetched.release[1].html_url])
         IN  [rejected |-> FALSE,
              value |-> [repository EXCEPT
                  !.hasUpdate = /\ fetched.release[1].published_at > t - FreshnessDays * MsPerDay
                                /\ repository.latestRelease # snapshot,
                  !.latestRelease = snapshot]]
    ELSE [rejected |-> FALSE, value |-> [repository EXCEPT !.hasUpdate = FALSE]]

\* mutant: the window is a day too long
threeDaysAgo_FourDays(t) == t - (FreshnessDays + 1) * MsPerDay

\* threeDaysAgo = new Date(); setDate(getDate() - 3)
threeDaysAgo(t) == setDate(tz, t, -FreshnessDays)

\* mutant: no catch around the lookup, a failure rejects the promise
checkRepositoryUpdate_NoCatch(repository, fetched, t) ==
    IF parseRepoUrl(repository.url) = Absent
    THEN [rejected |-> FALSE, value |-> repository]
    ELSE IF ~fetched.ok
    THEN [rejected |-> TRUE, value |-> repository]
    ELSE IF fetched.release # Absent
    THEN [rejected |-> FALSE,
          value |-> [repository EXCEPT
              !.hasUpdate = fetched.release[1].published_at > t - FreshnessDays * MsPerDay,
              !.latestRelease = Some([name |-> fetched.release[1].name,
                                      tagName |-> fetched.release[1].tag_name,
                                      publishedAt |-> fetched.release[1].published_at,
                                      url |-> fetched.release[1].html_url])]]
    ELSE [rejected |-> FALSE, value |-> [repository EXCEPT !.hasUpdate = FALSE]]

\* the settled promise of checkRepositoryUpdate(repository); `fetched` is
\* the outcome of fetchLatestRelease: [ok |-> FALSE] when it threw, else
\* [ok |-> TRUE, release |-> Absent or Some(release)]; t is new Date()
checkRepositoryUpdate(repository, fetched, t) ==
    IF parseRepoUrl(repository.url) = Absent
    THEN [rejected |-> FALSE, value |-> repository]
    ELSE IF ~fetched.ok
    THEN [rejected |-> FALSE, value |-> [repository EXCEPT !.hasUpdate = FALSE]]
    ELSE IF fetched.release # Absent
    THEN LET latestRelease == fetched.release[1]
             hasUpdate == latestRelease.published_at > threeDaysAgo(t)
         IN  [rejected |-> FALSE,
              value |-> [repository EXCEPT
                  !.hasUpdate = hasUpdate,
                  !.latestRelease = Some([name |-> latestRelease.name,
                                          tagName |-> latestRelease.tag_name,
                                          publishedAt |-> latestRelease.published_at,
                                          url |-> latestRelease.html_url])]]
    ELSE [rejected |-> FALSE, value |-> [repository EXCEPT !.hasUpdate = FALSE]]

\* history kept with each result: how the lookup ended at time t, worked
\* out from the release data alone
LookupKind(fetched, t) ==
    IF ~fetched.ok THEN "failed"
    ELSE IF fetched.release = Absent THEN "none"
    ELSE IF t - fetched.release[1].published_at < FreshnessDays * MsPerDay THEN "fresh"
    ELSE "stale"

\* ------------------------------------------------------------ state helpers
Ids(repos) == { repos[k].id : k \in 1..Len(repos) }

\* new Map(checkedRepos.map(r => [r.id, r])).get(id): a later pair of the
\* same key replaces an earlier one
checkedMapGet(checkedRepos, id) ==
    LET hits == { k \in 1..Len(checkedRepos) : checkedRepos[k].id = id }
    IN  IF hits = {} THEN Absent
        ELSE Some(checkedRepos[CHOOSE k \in hits : \A j \in hits : j <= k])

\* mutant: a merge that also drops the flag of the entries the result map
\* does not hold
MergeChecked_ResetOthers(prevRepos, checkedRepos) ==
    [k \in 1..Len(prevRepos) |->
        LET got == checkedMapGet(checkedRepos, prevRepos[k].id)
        IN  IF got # Absent THEN got[1]
            ELSE [prevRepos[k] EXCEPT !.hasUpdate = FALSE]]

\* mutant: a merge that fills in only the entries no check has filled yet
MergeChecked_FirstWins(prevRepos, checkedRepos) ==
    [k \in 1..Len(prevRepos) |->
        LET got == checkedMapGet(checkedRepos, prevRepos[k].id)
        IN  IF got # Absent /\ ~prevRepos[k].hasUpdate THEN got[1] ELSE prevRepos[k]]

\* mutant: a merge that keeps only the entries the result map holds
MergeChecked_OnlyChecked(prevRepos, checkedRepos) ==
    LET kept == SelectSeq(prevRepos, LAMBDA r : checkedMapGet(checkedRepos, r.id) # Absent)
    IN  [k \in 1..Len(kept) |-> checkedMapGet(checkedRepos, kept[k].id)[1]]

\* mutant: a merge that stores the checked entries and keeps those of the
\* current entries that were not checked
MergeChecked_PutBack(prevRepos, checkedRepos) ==
    checkedRepos \o SelectSeq(prevRepos, LAMBDA r : checkedMapGet(checkedRepos, r.id) = Absent)

\* prevRepos.map(repo => checkedMap.get(repo.id) || repo)
MergeChecked(prevRepos, checkedRepos) ==
    [k \in 1..Len(prevRepos) |->
        LET got == checkedMapGet(checkedRepos, prevRepos[k].id)
        IN  IF got # Absent THEN got[1] ELSE prevRepos[k]]

\* mutant: the await returns with the first promise that fulfils
PromiseAll_First(results) ==
    IF \E k \in 1..Len(results) : results[k] # Absent /\ results[k][1].rejected
    THEN "rejected"
    ELSE IF \E k \in 1..Len(results) : results[k] # Absent
    THEN "fulfilled"
    ELSE "pending"

\* await Promise.all(checkPromises): "rejected" as soon as one promise
\* rejects, "fulfilled" once every promise has fulfilled, else "pending"
PromiseAll(results) ==
    IF \E k \in 1..Len(results) : results[k] # Absent /\ results[k][1].rejected
    THEN "rejected"
    ELSE IF \A k \in 1..Len(results) : results[k] # Absent
    THEN "fulfilled"
    ELSE "pending"

\* the settled results, in the order of the promises
Settled(results) == SelectSeq(results, LAMBDA r : r # Absent)

\* checkedRepos: the values the promises fulfilled with
CheckedRepos(results) ==
    [k \in 1..Len(Settled(results)) |-> Settled(results)[k][1].value]

Outstanding(c) == checks[c].phase = "awaiting"

\* the ids whose entry had hasUpdate before and has it no longer in after
Cleared(before, after) ==
    { id \in Ids(before) \cap Ids(after) :
        /\ \E k \in 1..Len(before) : before[k].id = id /\ before[k].hasUpdate
        /\ \E k \in 1..Len(after) : after[k].id = id /\ ~after[k].hasUpdate }

Note(op, c, id, batch, cleared) ==
    [op |-> op, c |-> c, id |-> id, batch |-> batch, cleared |-> cleared]
Quiet == Note("other", 0, 0, <<>>, {})

\* --------------------------------------------------------------- Init
\* a first visit: nothing in localStorage, the tab not rendered yet
\* the entry AddRepositoryForm.handleSubmit builds from the details of
\* GitHub repository d
newRepo(d) ==
    [id |-> d,
     fullName |-> CanonicalName(d),
     url |-> HtmlUrl(d),
     hasUpdate |-> FALSE,
     latestRelease |-> Absent]

\* what useLocalStorage('repositories', []) can find on load: nothing, or
\* a list an earlier session stored
StoredRepositories == {<<>>} \cup {<<newRepo(d)>> : d \in RepoIds}

Init ==
    /\ repositories \in StoredRepositories
    /\ mounted = FALSE
    /\ isChecking = TRUE
    /\ savedCallback = <<>>
    /\ checks = <<>>
    /\ upstream = [id \in RepoIds |-> <<>>]
    /\ published = 0
    /\ now = 0
    /\ acked = {}
    /\ checkedAt = [id \in RepoIds |-> -1]
    /\ last = Quiet
    /\ startedBy = <<>>
    /\ RestOff

\* --------------------------------------------------------- runUpdateCheck
\* runUpdateCheck up to its await, run from a closure that captured
\* `captured` as its `repositories`
runUpdateCheck(captured) ==
    IF Len(captured) = 0
    THEN /\ isChecking' = FALSE
         /\ checks' = checks
    ELSE /\ Len(checks) < MaxChecks
         /\ isChecking' = TRUE
         /\ checks' = Append(checks,
                [snap |-> captured,
                 results |-> [k \in 1..Len(captured) |-> Absent],
                 phase |-> "awaiting",
                 outcome |-> "pending"])

\* App renders the Repositories tab: RepositoryList mounts with
\* useState(true) and useRef(runUpdateCheck), and its mount effect calls
\* tick() at once
Mount ==
    /\ ~mounted
    /\ mounted' = TRUE
    /\ savedCallback' = repositories
    /\ runUpdateCheck(repositories)
    /\ last' = Quiet
    /\ UNCHANGED <<repositories, upstream, published, now, acked, checkedAt>>

\* setInterval(tick, 3600 * 1000) fires
TimerFire ==
    /\ mounted
    /\ runUpdateCheck(savedCallback)
    /\ last' = Quiet
    /\ UNCHANGED <<repositories, mounted, savedCallback, upstream, published,
                   now, acked, checkedAt>>

\* the "Check for updates" button, disabled={isChecking}
ManualCheck ==
    /\ mounted
    /\ ~isChecking
    /\ runUpdateCheck(savedCallback)
    /\ last' = Quiet
    /\ UNCHANGED <<repositories, mounted, savedCallback, upstream, published,
                   now, acked, checkedAt>>

\* one checkRepositoryUpdate promise of check c settles (ok: the release
\* request answered); when that settles Promise.all, the rest of
\* runUpdateCheck runs in the same turn
LookupDone(c, k, ok) ==
    /\ Outstanding(c)
    /\ checks[c].results[k] = Absent
    /\ LET repository == checks[c].snap[k]
           parsed == parseRepoUrl(repository.url)
           found == IF parsed = Absent THEN {}
                    ELSE ResolveRepo(parsed[1].owner, parsed[1].repo)
           fetched == IF ok /\ found # {}
                      THEN [ok |-> TRUE,
                            release |-> fetchLatestRelease(upstream[CHOOSE id \in found : TRUE])]
                      ELSE [ok |-> FALSE]
           settled == checkRepositoryUpdate(repository, fetched, now)
           results == [checks[c].results EXCEPT
                          ![k] = Some([rejected |-> settled.rejected,
                                       value |-> settled.value,
                                       kind |-> LookupKind(fetched, now),
                                       at |-> now])]
           all == PromiseAll(results)
           batch == Settled(results)
       IN  /\ checks' = [checks EXCEPT ![c] =
                  IF all = "pending"
                  THEN [@ EXCEPT !.results = results]
                  ELSE [snap |-> <<>>, results |-> <<>>, phase |-> "done",
                        outcome |-> IF all = "fulfilled" THEN "merged" ELSE "raised"]]
           /\ repositories' = IF all = "fulfilled"
                              THEN MergeChecked(repositories, CheckedRepos(results))
                              ELSE repositories
           /\ isChecking' = IF all # "pending" THEN FALSE ELSE isChecking
           /\ checkedAt' = IF all = "fulfilled"
                           THEN [id \in RepoIds |->
                                   LET hits == { j \in 1..Len(batch) : batch[j][1].value.id = id }
                                   IN  IF hits = {} \/ id \notin Ids(repositories)
                                       THEN checkedAt[id]
                                       ELSE batch[CHOOSE j \in hits : \A i \in hits : i <= j][1].at]
                           ELSE checkedAt
           /\ last' = IF all = "fulfilled"
                      THEN Note("merge", c, 0, batch, Cleared(repositories, repositories'))
                      ELSE IF all = "rejected" THEN Note("raise", c, 0, batch, {})
                      ELSE Quiet
    /\ savedCallback' = repositories'
    /\ UNCHANGED <<mounted, upstream, published, now, acked>>

\* handleMarkAsSeen(id), from the "Mark as Seen" button a card shows while
\* repo.hasUpdate
handleMarkAsSeen(id) ==
    /\ mounted
    /\ \E k \in 1..Len(repositories) :
           repositories[k].id = id /\ repositories[k].hasUpdate
    /\ repositories' = [k \in 1..Len(repositories) |->
           IF repositories[k].id = id
           THEN [repositories[k] EXCEPT !.hasUpdate = FALSE]
           ELSE repositories[k]]
    /\ savedCallback' = repositories'
    /\ acked' = acked \cup { <<id, repositories[k].latestRelease>> :
                               k \in { j \in 1..Len(repositories) :
                                   repositories[j].id = id /\ repositories[j].hasUpdate } }
    /\ last' = Note("seen", 0, id, <<>>, {id})
    /\ UNCHANGED <<mounted, isChecking, checks, upstream, published, now, checkedAt>>

\* handleRemove(id), from a card's trash button
handleRemove(id) ==
    /\ mounted
    /\ id \in Ids(repositories)
    /\ repositories' = SelectSeq(repositories, LAMBDA r : r.id # id)
    /\ savedCallback' = repositories'
    /\ acked' = { a \in acked : a[1] # id }
    /\ checkedAt' = [checkedAt EXCEPT ![id] = -1]
    /\ last' = Quiet
    /\ UNCHANGED <<mounted, isChecking, checks, upstream, published, now>>

\* App.handleAddRepo(repo), the form's onAddRepo
handleAddRepo(repo) == <<repo>> \o repositories

\* AddRepositoryForm.handleSubmit with the URL of GitHub repository id in
\* the field, through to the end of the handler: the URL is parsed, a
\* tracked fullName is turned away, fetchRepoDetails answers, and the new
\* entry goes to onAddRepo
handleSubmit(id) ==
    /\ mounted
    /\ Len(repositories) < MaxTracked
    /\ LET parsed == parseRepoUrl(HtmlUrl(id))
       IN  /\ parsed # Absent
           /\ ~\E k \in 1..Len(repositories) :
                  repositories[k].fullName = <<parsed[1].owner, parsed[1].repo>>
           /\ \E d \in ResolveRepo(parsed[1].owner, parsed[1].repo) :
                  repositories' = handleAddRepo(newRepo(d))
    /\ savedCallback' = repositories'
    /\ last' = Quiet
    /\ UNCHANGED <<mounted, isChecking, checks, upstream, published, now,
                   acked, checkedAt>>

\* ------------------------------------------------------------ environment
\* a release is published on GitHub
Publish(id) ==
    /\ published < MaxReleases
    /\ published' = published + 1
    /\ upstream' = [upstream EXCEPT ![id] =
           <<[name |-> published + 1,
              tag_name |-> published + 1,
              published_at |-> now,
              html_url |-> <<id, published + 1>>]>> \o @]
    /\ last' = Quiet
    /\ UNCHANGED <<repositories, mounted, isChecking, savedCallback, checks,
                   now, acked, checkedAt>>

\* the newest release is deleted on GitHub
DeleteRelease(id) ==
    /\ Len(upstream[id]) > 0
    /\ upstream' = [upstream EXCEPT ![id] = Tail(@)]
    /\ last' = Quiet
    /\ UNCHANGED <<repositories, mounted, isChecking, savedCallback, checks,
                   published, now, acked, checkedAt>>

\* time passes: the length of one freshness window
Advance ==
    /\ now < MaxWindows * FreshnessDays * MsPerDay
    /\ now' = now + FreshnessDays * MsPerDay
    /\ last' = Quiet
    /\ UNCHANGED <<repositories, mounted, isChecking, savedCallback, checks,
                   upstream, published, acked, checkedAt>>

Next ==
    \/ Mount /\ UNCHANGED <<startedBy, restVars>>
    \/ TimerFire /\ UNCHANGED <<startedBy, restVars>>
    \/ ManualCheck /\ UNCHANGED <<startedBy, restVars>>
    \/ \E c \in 1..Len(checks) : \E k \in 1..Len(checks[c].snap) :
           \E ok \in BOOLEAN :
               LookupDone(c, k, ok) /\ UNCHANGED <<startedBy, restVars>>
    \/ \E id \in RepoIds : handleMarkAsSeen(id) /\ UNCHANGED <<startedBy, restVars>>
    \/ \E id \in RepoIds : handleRemove(id) /\ UNCHANGED <<startedBy, restVars>>
    \/ \E id \in RepoIds : handleSubmit(id) /\ UNCHANGED <<startedBy, restVars>>
    \/ \E id \in Releasing : Publish(id) /\ UNCHANGED <<startedBy, restVars>>
    \/ \E id \in Releasing : DeleteRelease(id) /\ UNCHANGED <<startedBy, restVars>>
    \/ Advance /\ UNCHANGED <<startedBy, restVars>>

Spec == Init /\ [][Next]_vars

\* ------------------------------------------------- overlapping checks
\* history: startedBy gains the caller of each runUpdateCheck that reached
\* its await, and the checks that were outstanding at that moment
Started(by) ==
    startedBy' = IF Len(checks') > Len(checks)
                 THEN Append(startedBy,
                          [by |-> by,
                           over |-> { c \in 1..Len(checks) : Outstanding(c) }])
                 ELSE startedBy

\* the poller with the caller of each check on record; the release data
\* changes by publication only and the clock stands still
NextOverlap ==
    \/ Mount /\ Started("mount") /\ UNCHANGED restVars
    \/ TimerFire /\ Started("timer") /\ UNCHANGED restVars
    \/ ManualCheck /\ Started("manual") /\ UNCHANGED restVars
    \/ \E c \in 1..Len(checks) : \E k \in 1..Len(checks[c].snap) :
           \E ok \in BOOLEAN :
               LookupDone(c, k, ok) /\ UNCHANGED <<startedBy, restVars>>
    \/ \E id \in RepoIds : handleMarkAsSeen(id) /\ UNCHANGED <<startedBy, restVars>>
    \/ \E id \in RepoIds : handleRemove(id) /\ UNCHANGED <<startedBy, restVars>>
    \/ \E id \in RepoIds : handleSubmit(id) /\ UNCHANGED <<startedBy, restVars>>
    \/ \E id \in Releasing : Publish(id) /\ UNCHANGED <<startedBy, restVars>>

SpecOverlap == Init /\ [][NextOverlap]_vars

\* checks c and d were outstanding together, one called by the timer and
\* the other by the button
TimerAndManual(c, d) ==
    /\ c # d
    /\ {startedBy[c].by, startedBy[d].by} = {"timer", "manual"}
    /\ (c \in startedBy[d].over \/ d \in startedBy[c].over)

\* C11: a timer-triggered and a manually triggered check that overlap do not
\* cancel or block one another: each stays outstanding, with the results it
\* has, until its own lookups have settled, and then applies its merge;
\* once both have merged, every tracked entry of the batch merged last holds
\* that batch's hasUpdate and latestRelease, whichever check started first
C11_OverlapLastMergeWins ==
    [][\A c \in 1..Len(checks) : \A d \in 1..Len(checks) :
          (Outstanding(c) /\ TimerAndManual(c, d)) =>
              /\ Len(checks') >= Len(checks)
              /\ \/ /\ Outstanding(c)'
                     /\ checks'[c].snap = checks[c].snap
                     /\ \A k \in 1..Len(checks[c].snap) :
                            checks[c].results[k] # Absent =>
                                checks'[c].results[k] = checks[c].results[k]
                     /\ ~(last'.op \in {"merge", "raise"} /\ last'.c = c)
                 \/ /\ checks'[c].phase = "done"
                     /\ checks'[c].outcome = "merged"
                     /\ PromiseAll(last'.batch) = "fulfilled"
                     /\ Len(last'.batch) = Len(checks[c].snap)
                     /\ last'.op = "merge" /\ last'.c = c
                     /\ \A j \in 1..Len(last'.batch) :
                            \A i \in 1..Len(repositories') :
                                repositories'[i].id = last'.batch[j][1].value.id =>
                                    /\ repositories'[i].hasUpdate =
                                           last'.batch[j][1].value.hasUpdate
                                    /\ repositories'[i].latestRelease =
                                           last'.batch[j][1].value.latestRelease
      ]_vars

\* the timer's check started first, the button's check started while it was
\* outstanding and merged first, and the timer's merge then took back a flag
\* the button's merge had raised
C11_Witness ==
    /\ Len(checks) = 2
    /\ TimerAndManual(1, 2)
    /\ startedBy[1].by = "timer"
    /\ checks[1].outcome = "merged" /\ checks[2].outcome = "merged"
    /\ last.op = "merge" /\ last.c = 1
    /\ last.cleared # {}
    /\ acked = {}

\* C12: while a lookup of an outstanding check has not completed, that check
\* does not apply its merge and isChecking does not become false
C12_StuckLookupStallsCheck ==
    [][\A c \in 1..Len(checks) : \A k \in 1..Len(checks[c].snap) :
          (/\ Outstanding(c)
           /\ checks[c].results[k] = Absent
           /\ Len(checks') >= c
           /\ Len(checks'[c].results) >= k
           /\ checks'[c].results[k] = Absent) =>
              /\ Outstanding(c)'
              /\ ~(last'.op = "merge" /\ last'.c = c)
              /\ isChecking'
      ]_vars

\* --------------------------------------------- two checks in succession
\* a tracked entry as an earlier session's checks left it
TrackedEntry(d, flag, release) ==
    [newRepo(d) EXCEPT !.hasUpdate = flag, !.latestRelease = release]

\* a release of GitHub repository 1 published at instant p
ReleaseAt(p) ==
    [name |-> 1, tag_name |-> 1, published_at |-> p, html_url |-> <<1, 1>>]

\* the latestRelease an entry records for a release
Recorded(release) ==
    Some([name |-> release.name, tagName |-> release.tag_name,
          publishedAt |-> release.published_at, url |-> release.html_url])

\* what localStorage holds of a repository after earlier sessions: never
\* checked, or checked with a release on record (flagged or not)
StoredEntries(d) ==
    IF d \in Releasing
    THEN { newRepo(d),
           TrackedEntry(d, FALSE, Recorded(ReleaseAt(0))),
           TrackedEntry(d, TRUE, Recorded(ReleaseAt(0))) }
    ELSE { newRepo(d) }

\* the stored lists: one or two repositories, no id twice
StoredLists ==
    { <<e>> : e \in UNION { StoredEntries(d) : d \in RepoIds } }
    \cup { <<e, f>> : e \in StoredEntries(1), f \in StoredEntries(2) }
    \cup { <<f, e>> : e \in StoredEntries(1), f \in StoredEntries(2) }

\* a page load over a stored list, with GitHub holding a release of
\* repository 1 or none
InitTwice ==
    /\ repositories \in StoredLists
    /\ mounted = FALSE
    /\ isChecking = TRUE
    /\ savedCallback = <<>>
    /\ checks = <<>>
    /\ upstream \in { [id \in RepoIds |-> IF id = 1 THEN u ELSE <<>>] :
                         u \in {<<>>, <<ReleaseAt(0)>>} }
    /\ published = Len(upstream[1])
    /\ now = 0
    /\ acked = {}
    /\ checkedAt = [id \in RepoIds |-> -1]
    /\ last = Quiet
    /\ startedBy = <<>>
    /\ OtherOff
    /\ mergedFirst = Absent

\* history: mergedFirst keeps the list and the batch of the first merge
Remember ==
    mergedFirst' = IF mergedFirst = Absent /\ last'.op = "merge"
                   THEN Some([repos |-> repositories', batch |-> last'.batch])
                   ELSE mergedFirst

\* the poller left to itself: the checks run, time passes, the user and
\* GitHub's release data stay as they are
NextTwice ==
    \/ Mount /\ Started("mount") /\ UNCHANGED <<otherVars, mergedFirst>>
    \/ TimerFire /\ Started("timer") /\ UNCHANGED <<otherVars, mergedFirst>>
    \/ ManualCheck /\ Started("manual") /\ UNCHANGED <<otherVars, mergedFirst>>
    \/ \E c \in 1..Len(checks) : \E k \in 1..Len(checks[c].snap) :
           \E ok \in BOOLEAN :
               LookupDone(c, k, ok) /\ Remember /\ UNCHANGED <<startedBy, otherVars>>
    \/ Advance /\ UNCHANGED <<startedBy, restVars>>

SpecTwice == InitTwice /\ [][NextTwice]_vars

\* the kind of lookup a batch holds for repository id
KindIn(batch, id) ==
    { batch[j][1].kind : j \in { i \in 1..Len(batch) : batch[i][1].value.id = id } }

\* this step applies the merge of the second check, which started after the
\* first check had merged
SecondMergeInSuccession ==
    /\ mergedFirst # Absent
    /\ last'.op = "merge" /\ last'.c = 2
    /\ checks[1].outcome = "merged"
    /\ startedBy[2].over = {}

\* no release is inside the window at one of the two lookups and outside
\* it at the other
NoCrossing(first, second) ==
    \A id \in RepoIds :
        ~(\E a \in KindIn(first, id) : \E b \in KindIn(second, id) :
              {a, b} = {"fresh", "stale"})

\* the tracked entries carry the same hasUpdate and latestRelease in both
\* lists
SameFlags(one, other) ==
    /\ Len(one) = Len(other)
    /\ \A i \in 1..Len(one) :
           /\ one[i].id = other[i].id
           /\ one[i].hasUpdate = other[i].hasUpdate
           /\ one[i].latestRelease = other[i].latestRelease

PollerOff ==
    /\ repositories = <<>>
    /\ mounted = FALSE
    /\ isChecking = TRUE
    /\ savedCallback = <<>>
    /\ checks = <<>>
    /\ upstream = [id \in RepoIds |-> <<>>]
    /\ published = 0
    /\ now = 0
    /\ acked = {}
    /\ checkedAt = [id \in RepoIds |-> -1]
    /\ last = Quiet
    /\ startedBy = <<>>
    /\ mergedFirst = <<>>

\* the instant the zone's UTC offset changes
TransitionAt == 10 * MsPerDay

\* zones that put the clock back an hour, leave it, or put it forward
Zones == { [at |-> TransitionAt, shift |-> d] : d \in {-MsPerHour, 0, MsPerHour} }

\* instants of the check: before the change, within three days after it,
\* and later
CheckTimes == { TransitionAt - MsPerDay, TransitionAt + MsPerDay,
                TransitionAt + 2 * MsPerDay, TransitionAt + 5 * MsPerDay }

\* how long before the check the latest release was published
ReleaseAges ==
    { MsPerDay,
      3 * MsPerDay - MsPerHour - MsPerSecond,
      3 * MsPerDay - MsPerHour,
      3 * MsPerDay - MsPerSecond,
      3 * MsPerDay,
      3 * MsPerDay + MsPerSecond,
      3 * MsPerDay + MsPerHour - MsPerSecond,
      3 * MsPerDay + MsPerHour,
      3 * MsPerDay + MsPerHour + MsPerSecond,
      4 * MsPerDay }

InitFresh ==
    /\ PollerOff
    /\ ExtractOff
    /\ NewsOff
    /\ FormOff
    /\ MoreOff
    /\ tz \in Zones
    /\ clock \in CheckTimes
    /\ released \in {Absent} \cup { Some(ReleaseAt(clock - a)) : a \in ReleaseAges }
    /\ checked = Absent

\* checkRepositoryUpdate(repository) for a tracked repository 1, from the
\* answer of fetchLatestRelease to the value it resolves with
CheckOnce ==
    /\ checked = Absent
    /\ checked' = Some(checkRepositoryUpdate(newRepo(1),
                          [ok |-> TRUE, release |-> released], clock).value)
    /\ UNCHANGED <<tz, clock, released>>

NextFresh == CheckOnce /\ UNCHANGED <<pollerVars, startedBy, mergedFirst, extractVars, newsVars, formVars, moreVars>>

SpecFresh == InitFresh /\ [][NextFresh]_vars

\* C13: given a latest release, hasUpdate = (publishedAt > check time - 3 days):
\* false for a release published exactly 3 days and 1 second before the check,
\* true for one published 2 days 23 hours before it
C13_FreshnessBoundary ==
    (checked # Absent /\ released # Absent) =>
        LET publishedAt == released[1].published_at
            age == clock - publishedAt
            hasUpdate == checked[1].hasUpdate
        IN  /\ hasUpdate = (publishedAt > clock - 3 * MsPerDay)
            /\ (age = 3 * MsPerDay + MsPerSecond) => ~hasUpdate
            /\ (age = 3 * MsPerDay - MsPerHour) => hasUpdate

\* ================================================================ claims
\* the entries of a sequence, as a set
Entries(repos) == { repos[k] : k \in 1..Len(repos) }

\* the settled results visible in a state: those of the checks in flight
\* and those of the batch the latest step merged
ResultsInFlight ==
    UNION { { checks[c].results[k][1] :
                k \in { j \in 1..Len(checks[c].results) : checks[c].results[j] # Absent } } :
            c \in 1..Len(checks) }
BatchMerged == IF last.op = "merge" THEN { last.batch[k][1] : k \in 1..Len(last.batch) } ELSE {}

\* the step settles check c: its Promise.all is no longer awaited
Settles(c) == Outstanding(c) /\ checks'[c].phase = "done"

\* the ids of the result map of the merge the step applies
MapIds == { last'.batch[k][1].value.id : k \in 1..Len(last'.batch) }

\* C1: once the user has marked a repository as seen, no later merge shows
\* hasUpdate again for that same release: an entry with hasUpdate never
\* carries a release the user has acknowledged for that repository.
C1_DismissedStaysDismissed ==
    \A k \in 1..Len(repositories) :
        repositories[k].hasUpdate =>
            <<repositories[k].id, repositories[k].latestRelease>> \notin acked

\* C2: a merge leaves every tracked entry whose id is not in the check's
\* result map exactly as it was and removes nothing: the tracked ids are
\* the same, position by position, before and after the merge.
C2_MergeKeepsOthers ==
    [][\A c \in 1..Len(checks) :
          (Settles(c) /\ checks'[c].outcome = "merged") =>
              /\ Len(repositories') = Len(repositories)
              /\ \A k \in 1..Len(repositories) :
                    /\ repositories'[k].id = repositories[k].id
                    /\ repositories[k].id \notin MapIds =>
                           repositories'[k] = repositories[k]]_vars

\* C2 witness: a merge has just been applied while an entry that is not
\* in its result map is tracked.
C2_Witness ==
    /\ last.op = "merge"
    /\ \E k \in 1..Len(repositories) :
           repositories[k].id \notin { r.value.id : r \in BatchMerged }

\* C3: whatever lookups of a batch fail, the batch-level check does not
\* raise: when its Promise.all settles the check has merged, every lookup
\* of the batch is in, and each tracked entry a lookup succeeded for holds
\* that lookup's result; the in-flight indicator is cleared.
C3_FailureDoesNotFailBatch ==
    [][\A c \in 1..Len(checks) :
          Settles(c) =>
              /\ checks'[c].outcome = "merged"
              /\ last'.op = "merge"
              /\ Len(last'.batch) = Len(checks[c].snap)
              /\ ~isChecking'
              /\ \A k \in 1..Len(last'.batch) : \A j \in 1..Len(repositories') :
                    ( /\ last'.batch[k][1].kind # "failed"
                      /\ last'.batch[k][1].value.id = repositories'[j].id
                      /\ \A i \in (k + 1)..Len(last'.batch) :
                            last'.batch[i][1].value.id # repositories'[j].id )
                    => repositories'[j] = last'.batch[k][1].value]_vars

\* C3 witness: a batch in which one lookup failed and another found a
\* fresh release has been merged, and the fresh result is in the list.
C3_Witness ==
    /\ last.op = "merge"
    /\ \E f \in BatchMerged : f.kind = "failed"
    /\ \E g \in BatchMerged :
           g.kind = "fresh" /\ g.value.hasUpdate /\ g.value \in Entries(repositories)

\* C4: a lookup that succeeds and finds no release returns the entry with
\* hasUpdate = false and latestRelease cleared, whatever it held before;
\* one that finds a release returns latestRelease set to its snapshot.
C4_NoReleaseClears ==
    \A r \in ResultsInFlight \cup BatchMerged :
        /\ r.kind = "none" =>
               ~r.value.hasUpdate /\ r.value.latestRelease = Absent
        /\ r.kind \in {"fresh", "stale"} =>
               /\ r.value.latestRelease # Absent
               /\ r.value.latestRelease[1].name = r.value.latestRelease[1].tagName
               /\ r.value.latestRelease[1].url =
                      <<r.value.id, r.value.latestRelease[1].tagName>>

\* C5: when a repository's release lookup fails, its merged entry has
\* hasUpdate = false and no latestRelease, whatever the entry held before.
C5_FailureLeavesUnset ==
    \A r \in BatchMerged :
        r.kind = "failed" =>
            \A k \in 1..Len(repositories) :
                repositories[k].id = r.value.id =>
                    /\ ~repositories[k].hasUpdate
                    /\ repositories[k].latestRelease = Absent

C8_CheckStartsOnMountAndFirstAdd ==
    [][/\ (~mounted /\ mounted' /\ Len(repositories) > 0) =>
              Len(checks') = Len(checks) + 1
       /\ (Len(repositories) = 0 /\ Len(repositories') > 0) =>
              Len(checks') = Len(checks) + 1]_vars

\* C9: whenever a check is outstanding the in-flight indicator is true
\* (and with it the manual trigger disabled).
C9_IndicatorWhileOutstanding ==
    (mounted /\ \E c \in 1..Len(checks) : Outstanding(c)) => isChecking

\* C10: a check changes the tracked set in one merge, applied when every
\* lookup of its batch has settled: a lookup that leaves the check waiting
\* changes nothing, the settling step applies the whole batch at once, a
\* settled check changes nothing more, and nothing but a merge, an
\* acknowledgment, an add or a removal changes the list.
C10_OneMergeAfterAllLookups ==
    [][/\ \A c \in 1..Len(checks) :
             /\ (Outstanding(c) /\ checks'[c] # checks[c] /\ checks'[c].phase = "awaiting")
                    => repositories' = repositories
             /\ Settles(c) =>
                    /\ Len(last'.batch) = Len(checks[c].snap)
                    /\ Len(repositories') = Len(repositories)
                    /\ \A j \in 1..Len(repositories) :
                          IF repositories[j].id \in MapIds
                          THEN \E k \in 1..Len(last'.batch) :
                                  repositories'[j] = last'.batch[k][1].value
                          ELSE repositories'[j] = repositories[j]
             /\ ~Outstanding(c) => checks'[c] = checks[c]
       /\ ( /\ repositories' # repositories
            /\ Len(repositories') = Len(repositories)
            /\ last'.op # "seen" )
              => \E c \in 1..Len(checks) : Settles(c)]_vars

\* C10 witness: a batch of two lookups has been merged in one step, both
\* results are in the list and one of them shows an update.
C10_Witness ==
    /\ last.op = "merge"
    /\ Len(last.batch) = 2
    /\ \A r \in BatchMerged : r.value \in Entries(repositories)
    /\ \E r \in BatchMerged : r.value.hasUpdate

\* ================================================ AI response extraction
\* A text is a sequence of symbols: single characters, and the triple
\* backtick, the tag json and a few whole words as one symbol each.
Space == " "
NL == "\n"
\* the white space of String.prototype.trim and of JSON
WhiteSpace == {Space, NL}
Fence == "FENCE"
Quote == "\""
Digits == {"1", "2"}

\* JSON values
\* every value has the same fields: the text of a string or a number, the
\* items of an array, the keys and the values of an object's members
Str(chars) == [t |-> "str", text |-> chars, items |-> <<>>, keys |-> <<>>]
Num(digits) == [t |-> "num", text |-> digits, items |-> <<>>, keys |-> <<>>]
Arr(items) == [t |-> "arr", text |-> <<>>, items |-> items, keys |-> <<>>]
Obj(members) ==
    [t |-> "obj", text |-> <<>>,
     items |-> [k \in 1..Len(members) |-> members[k][2]],
     keys |-> [k \in 1..Len(members) |-> members[k][1]]]

\* the members of an object, each a pair of key and value
Members(value) == [k \in 1..Len(value.keys) |-> <<value.keys[k], value.items[k]>>]

\* String.prototype.trim
RECURSIVE trimStart(_)
trimStart(s) == IF Len(s) > 0 /\ s[1] \in WhiteSpace THEN trimStart(Tail(s)) ELSE s

RECURSIVE trimEnd(_)
trimEnd(s) ==
    IF Len(s) > 0 /\ s[Len(s)] \in WhiteSpace THEN trimEnd(SubSeq(s, 1, Len(s) - 1)) ELSE s

trim(s) == trimEnd(trimStart(s))

\* the places of symbol ch in s
Places(s, ch) == { i \in 1..Len(s) : s[i] = ch }

\* String.prototype.indexOf: counted from 0, -1 when absent
indexOf(s, ch) ==
    IF Places(s, ch) = {} THEN -1
    ELSE (CHOOSE i \in Places(s, ch) : \A j \in Places(s, ch) : i <= j) - 1

\* mutant: the place of the first occurrence
lastIndexOf_First(s, ch) ==
    IF Places(s, ch) = {} THEN -1
    ELSE (CHOOSE i \in Places(s, ch) : \A j \in Places(s, ch) : i <= j) - 1

\* String.prototype.lastIndexOf
lastIndexOf(s, ch) ==
    IF Places(s, ch) = {} THEN -1
    ELSE (CHOOSE i \in Places(s, ch) : \A j \in Places(s, ch) : j <= i) - 1

\* String.prototype.substring(start, end): both ends clamped to the text,
\* and swapped when start > end
substring(s, start, end) ==
    LET clamp(n) == IF n < 0 THEN 0 ELSE IF n > Len(s) THEN Len(s) ELSE n
        lo == IF clamp(start) <= clamp(end) THEN clamp(start) ELSE clamp(end)
        hi == IF clamp(start) <= clamp(end) THEN clamp(end) ELSE clamp(start)
    IN  SubSeq(s, lo + 1, hi)

\* text.match(/```(?:json)?\s*([\s\S]*?)\s*```/): match[1], if the text
\* matches. The match opens at the first triple backtick and closes at the
\* next one; the group is what lies between, less a leading json and the
\* white space at both ends
fenceMatch(s) ==
    IF Cardinality(Places(s, Fence)) < 2 THEN <<>>
    ELSE LET open == CHOOSE i \in Places(s, Fence) : \A j \in Places(s, Fence) : i <= j
             later == Places(s, Fence) \ {open}
             close == CHOOSE i \in later : \A j \in later : i <= j
             inner == IF s[open + 1] = "json"
                      THEN SubSeq(s, open + 2, close - 1)
                      ELSE SubSeq(s, open + 1, close - 1)
         IN  <<trim(inner)>>

\* ------------------------------------------------------------ JSON.parse
NoParse == [ok |-> FALSE, val |-> <<>>, next |-> 0]

RECURSIVE skip(_, _)
skip(s, i) == IF i <= Len(s) /\ s[i] \in WhiteSpace THEN skip(s, i + 1) ELSE i

\* a string literal that opens at s[j]
parseString(s, j) ==
    LET ends == { k \in (j + 1)..Len(s) : s[k] = Quote }
    IN  IF ends = {} THEN NoParse
        ELSE LET k == CHOOSE e \in ends : \A f \in ends : e <= f
             IN  [ok |-> TRUE, val |-> Str(SubSeq(s, j + 1, k - 1)), next |-> k + 1]

\* a number that starts at s[j]
parseNumber(s, j) ==
    LET stops == { k \in j..(Len(s) + 1) : k > Len(s) \/ s[k] \notin Digits }
        k == CHOOSE e \in stops : \A f \in stops : e <= f
    IN  [ok |-> TRUE, val |-> Num(SubSeq(s, j, k - 1)), next |-> k]

RECURSIVE parseValue(_, _)
RECURSIVE parseItems(_, _, _)
RECURSIVE parseMembers(_, _, _)

\* the value that starts at or after s[i]
parseValue(s, i) ==
    LET j == skip(s, i)
    IN  IF j > Len(s) THEN NoParse
        ELSE IF s[j] = Quote THEN parseString(s, j)
        ELSE IF s[j] \in Digits THEN parseNumber(s, j)
        ELSE IF s[j] = "["
        THEN LET e == skip(s, j + 1)
             IN  IF e <= Len(s) /\ s[e] = "]"
                 THEN [ok |-> TRUE, val |-> Arr(<<>>), next |-> e + 1]
                 ELSE parseItems(s, j + 1, <<>>)
        ELSE IF s[j] = "{"
        THEN LET e == skip(s, j + 1)
             IN  IF e <= Len(s) /\ s[e] = "}"
                 THEN [ok |-> TRUE, val |-> Obj(<<>>), next |-> e + 1]
                 ELSE parseMembers(s, j + 1, <<>>)
        ELSE NoParse

\* the items of an array, from s[i] to its closing bracket
parseItems(s, i, acc) ==
    LET r == parseValue(s, i)
    IN  IF ~r.ok THEN NoParse
        ELSE LET j == skip(s, r.next)
             IN  IF j > Len(s) THEN NoParse
                 ELSE IF s[j] = "," THEN parseItems(s, j + 1, Append(acc, r.val))
                 ELSE IF s[j] = "]"
                 THEN [ok |-> TRUE, val |-> Arr(Append(acc, r.val)), next |-> j + 1]
                 ELSE NoParse

\* the members of an object, from s[i] to its closing brace
parseMembers(s, i, acc) ==
    LET j == skip(s, i)
    IN  IF j > Len(s) \/ s[j] # Quote THEN NoParse
        ELSE LET key == parseString(s, j)
             IN  IF ~key.ok THEN NoParse
                 ELSE LET c == skip(s, key.next)
                      IN  IF c > Len(s) \/ s[c] # ":" THEN NoParse
                          ELSE LET r == parseValue(s, c + 1)
                               IN  IF ~r.ok THEN NoParse
                                   ELSE LET e == skip(s, r.next)
                                            more == Append(acc, <<key.val.text, r.val>>)
                                        IN  IF e > Len(s) THEN NoParse
                                            ELSE IF s[e] = ","
                                            THEN parseMembers(s, e + 1, more)
                                            ELSE IF s[e] = "}"
                                            THEN [ok |-> TRUE, val |-> Obj(more),
                                                  next |-> e + 1]
                                            ELSE NoParse

\* JSON.parse(text): <<value>>, or <<>> where it throws a SyntaxError
JSONparse(s) ==
    LET r == parseValue(s, 1)
    IN  IF r.ok /\ skip(s, r.next) > Len(s) THEN <<r.val>> ELSE <<>>

\* --------------------------------------------------- the shared extraction
\* from response.text to the parsed slice, as each of the three callers
\* spells it out: "none" without a bracket of either kind, "invalid" where
\* JSON.parse throws
ExtractArray(raw) ==
    LET trimmed == trim(raw)
        match == fenceMatch(trimmed)
        text == IF match # <<>> THEN match[1] ELSE trimmed
        arrayStartIndex == indexOf(text, "[")
        arrayEndIndex == lastIndexOf(text, "]")
    IN  IF arrayStartIndex = -1 \/ arrayEndIndex = -1
        THEN [kind |-> "none", value |-> Arr(<<>>)]
        ELSE LET jsonString == substring(text, arrayStartIndex, arrayEndIndex + 1)
                 parsed == JSONparse(jsonString)
             IN  IF parsed = <<>>
                 THEN [kind |-> "invalid", value |-> Arr(<<>>)]
                 ELSE [kind |-> "parsed", value |-> parsed[1]]

\* ----------------------------------------------------- element mappers
\* String.prototype.toUpperCase of one character: a text, since the upper
\* case of some characters is more than one character long
toUpperCase(ch) ==
    CASE ch = "a" -> <<"A">>
      [] ch = "i" -> <<"I">>
      [] ch = "s" -> <<"S">>
      [] ch = "r" -> <<"R">>
      [] ch = "u" -> <<"U">>
      [] ch = "t" -> <<"T">>
      [] ch = "ß" -> <<"S", "S">>
      [] OTHER -> <<ch>>

\* String.prototype.toLowerCase of one character
toLowerCase(ch) ==
    CASE ch = "A" -> "a"
      [] ch = "I" -> "i"
      [] ch = "S" -> "s"
      [] ch = "R" -> "r"
      [] ch = "U" -> "u"
      [] ch = "T" -> "t"
      [] OTHER -> ch

\* mutant: only the first character is changed
normalizeTag_FirstOnly(tag) ==
    IF tag = <<>> THEN <<>>
    ELSE toUpperCase(tag[1]) \o [k \in 1..(Len(tag) - 1) |-> tag[k + 1]]

\* tag.charAt(0).toUpperCase() + tag.slice(1).toLowerCase()
normalizeTag(tag) ==
    IF tag = <<>> THEN <<>>
    ELSE toUpperCase(tag[1]) \o [k \in 1..(Len(tag) - 1) |-> toLowerCase(tag[k + 1])]

\* text.join(','), over texts
RECURSIVE JoinTexts(_)
JoinTexts(texts) ==
    IF texts = <<>> THEN <<>>
    ELSE IF Len(texts) = 1 THEN texts[1]
    ELSE texts[1] \o <<",">> \o JoinTexts(Tail(texts))

\* `${value}` in a template literal
RECURSIVE ToText(_)
ToText(value) ==
    CASE value.t = "str" -> value.text
      [] value.t = "num" -> value.text
      [] value.t = "arr" -> JoinTexts([k \in 1..Len(value.items) |-> ToText(value.items[k])])
      [] value.t = "obj" -> <<"[object Object]">>

\* {...video}: the own enumerable properties of a parsed element
Spread(video) ==
    CASE video.t = "obj" -> Members(video)
      [] video.t = "arr" -> [k \in 1..Len(video.items) |-> <<<<ToString(k - 1)>>, video.items[k]>>]
      [] video.t = "str" -> [k \in 1..Len(video.text) |-> <<<<ToString(k - 1)>>, Str(<<video.text[k]>>)>>]
      [] video.t = "num" -> <<>>

\* video.id, as the template literal prints it
IdText(video) ==
    IF video.t = "obj" /\ \E k \in 1..Len(video.keys) : video.keys[k] = <<"id">>
    THEN ToText(video.items[CHOOSE k \in 1..Len(video.keys) : video.keys[k] = <<"id">>])
    ELSE <<"undefined">>

\* { ...members, [key]: value }
WithMember(members, key, value) ==
    IF \E k \in 1..Len(members) : members[k][1] = key
    THEN [k \in 1..Len(members) |->
             IF members[k][1] = key THEN <<key, value>> ELSE members[k]]
    ELSE Append(members, <<key, value>>)

\* mutant: a thumbnailUrl that came with the element is kept
mapVideo_KeepSupplied(video) ==
    IF \E k \in 1..Len(Spread(video)) : Spread(video)[k][1] = <<"thumbnailUrl">>
    THEN Obj(Spread(video))
    ELSE Obj(WithMember(Spread(video), <<"thumbnailUrl">>,
                 Str(<<"https://i.ytimg.com/vi/">> \o IdText(video) \o <<"/hqdefault.jpg">>)))

\* video => ({ ...video, thumbnailUrl: `https://i.ytimg.com/vi/${video.id}/hqdefault.jpg` })
mapVideo(video) ==
    Obj(WithMember(Spread(video), <<"thumbnailUrl">>,
            Str(<<"https://i.ytimg.com/vi/">> \o IdText(video) \o <<"/hqdefault.jpg">>)))

\* ------------------------------------------------------------ the callers
\* reply: <<response.text>>, or <<>> when the request to the AI failed.
\* fetchAndSummarizeNews(url): the value it resolves with
fetchAndSummarizeNews(reply) ==
    IF reply = <<>> THEN Arr(<<>>)
    ELSE LET found == ExtractArray(reply[1])
         IN  IF found.kind = "parsed" THEN found.value ELSE Arr(<<>>)

\* generateTagsForNewsSource(url): the value it resolves with; tags.map and
\* tag.charAt throw a TypeError on anything but an array of strings
generateTagsForNewsSource(reply) ==
    IF reply = <<>> THEN Arr(<<>>)
    ELSE LET found == ExtractArray(reply[1])
         IN  IF /\ found.kind = "parsed"
                /\ found.value.t = "arr"
                /\ \A k \in 1..Len(found.value.items) : found.value.items[k].t = "str"
             THEN Arr([k \in 1..Len(found.value.items) |->
                          Str(normalizeTag(found.value.items[k].text))])
             ELSE Arr(<<>>)

NoArrayMessage == "The AI returned a response without a valid JSON array."
RequestFailedMessage ==
    "Failed to fetch YouTube videos. The AI may be unavailable or the request failed."
InvalidResponseMessage == "The AI returned an invalid response. Please try again."
SdkErrorMessage == "generateContent failed"

Returned(list) == [threw |-> FALSE, value |-> list, message |-> ""]
Threw(message) == [threw |-> TRUE, value |-> <<>>, message |-> message]

\* searchYouTubeVideos({tags, ...}) with tags.length > 0 in build v: the
\* list it resolves with or the Error it rejects with
searchYouTubeVideos(v, reply) ==
    IF reply = <<>>
    THEN Threw(IF v = "proxy" THEN RequestFailedMessage ELSE SdkErrorMessage)
    ELSE LET found == ExtractArray(reply[1])
         IN  IF found.kind = "none"
             THEN IF v = "proxy" THEN Threw(NoArrayMessage) ELSE Returned(<<>>)
             ELSE IF found.kind = "invalid" \/ found.value.t # "arr"
             THEN Threw(IF v = "proxy" THEN RequestFailedMessage
                        ELSE InvalidResponseMessage)
             ELSE Returned([k \in 1..Len(found.value.items) |->
                                mapVideo(found.value.items[k])])

\* --------------------------------------------------------- the AI's texts
\* JSON text of a value, items parted by a comma and a space
RECURSIVE Render(_)
Render(value) ==
    CASE value.t = "str" -> <<Quote>> \o value.text \o <<Quote>>
      [] value.t = "num" -> value.text
      [] value.t = "arr" ->
            <<"[">> \o JoinTexts([k \in 1..Len(value.items) |->
                          IF k = 1 THEN Render(value.items[k])
                          ELSE <<Space>> \o Render(value.items[k])]) \o <<"]">>
      [] value.t = "obj" ->
            <<"{">> \o JoinTexts([k \in 1..Len(value.keys) |->
                          <<Quote>> \o value.keys[k] \o <<Quote, ":", Space>>
                              \o Render(value.items[k])]) \o <<"}">>

\* elements the AI may put in its array
Plain == { Num(<<"1">>),
           Str(<<"a", "i">>),
           Arr(<<Num(<<"1">>)>>),
           Obj(<< <<<<"id">>, Str(<<"x">>)>> >>) }

Elements ==
    Plain \cup
    { Str(<<"A", "I">>),
      Str(<<"]">>),
      Str(<<Fence>>),
      Arr(<<>>),
      Obj(<< <<<<"id">>, Str(<<"x">>)>>, <<<<"thumbnailUrl">>, Str(<<"u">>)>> >>),
      Obj(<< <<<<"a">>, Arr(<<Num(<<"2">>)>>)>> >>) }

Arrays ==
    {Arr(<<>>)} \cup { Arr(<<e>>) : e \in Elements }
    \cup { Arr(<<e, f>>) : e \in Plain, f \in Plain \ {Num(<<"1">>)} }

\* prose before and after the array
Prefixes == { <<>>, <<Space>>, <<"a", Space>>, <<"a", "[", Space>>, <<"a", Fence, Space>> }
Suffixes == { <<>>, <<Space, "b">>, <<Space, "b", "]">> }

\* the array bare, in a fenced block, or in a fenced block tagged json
Wrap(mode, body) ==
    CASE mode = "none" -> body
      [] mode = "plain" -> <<Fence, Space>> \o body \o <<Space, Fence>>
      [] mode = "json" -> <<Fence, "json", Space>> \o body \o <<Space, Fence>>

\* responses that hold one JSON array
ArrayResponses ==
    { [text |-> pre \o Wrap(mode, Render(a)) \o suf,
       array |-> <<a>>,
       prose |-> pre \o suf,
       fenced |-> mode # "none"] :
        a \in Arrays, pre \in Prefixes, suf \in Suffixes,
        mode \in {"none", "plain", "json"} }

\* responses that hold none
OtherTexts ==
    { <<>>,
      <<"a", Space, "b">>,
      <<"[", "1">>,
      <<"1", "]">>,
      <<"]", Space, "1", Space, "[">>,
      <<"[", "1", ",", "]">>,
      <<"[", "a", "]">>,
      <<"{", "}">>,
      <<Fence, Space, "a", Space, Fence>>,
      <<"a", "[", Space, Fence, Space, "b", Space, Fence, Space, "]">> }

Responses ==
    ArrayResponses \cup
    { [text |-> t, array |-> <<>>, prose |-> t, fenced |-> FALSE] : t \in OtherTexts }

\* ------------------------------------------------------------ the actions
InitExtract ==
    /\ PollerOff
    /\ FreshOff
    /\ NewsOff
    /\ FormOff
    /\ MoreOff
    /\ response \in Responses
    /\ variant \in {"proxy", "direct"}
    /\ arrived = [c \in Callers |-> "unasked"]
    /\ newsResult = <<>>
    /\ tagsResult = <<>>
    /\ videos = <<>>
    /\ searchError = <<>>
    /\ searchLoading = FALSE
    /\ hasSearched = FALSE

Reply(ok) == IF ok THEN <<response.text>> ELSE <<>>

\* fetchAndSummarizeNews(url), from the call to its result
AskNews(ok) ==
    /\ arrived["news"] = "unasked"
    /\ arrived' = [arrived EXCEPT !["news"] = IF ok THEN "arrived" ELSE "failed"]
    /\ newsResult' = <<fetchAndSummarizeNews(Reply(ok))>>
    /\ UNCHANGED <<response, variant, tagsResult, videos, searchError,
                   searchLoading, hasSearched>>

\* generateTagsForNewsSource(url), from the call to its result
AskTags(ok) ==
    /\ arrived["tags"] = "unasked"
    /\ arrived' = [arrived EXCEPT !["tags"] = IF ok THEN "arrived" ELSE "failed"]
    /\ tagsResult' = <<generateTagsForNewsSource(Reply(ok))>>
    /\ UNCHANGED <<response, variant, newsResult, videos, searchError,
                   searchLoading, hasSearched>>

\* YouTubePanel.executeSearch(page) with tags.length > 0, up to its await
SearchStart ==
    /\ arrived["search"] = "unasked"
    /\ ~searchLoading
    /\ arrived' = [arrived EXCEPT !["search"] = "pending"]
    /\ searchError' = <<>>
    /\ searchLoading' = TRUE
    /\ hasSearched' = TRUE
    /\ UNCHANGED <<response, variant, newsResult, tagsResult, videos>>

\* executeSearch from the settling of searchYouTubeVideos to its end
SearchEnd(ok) ==
    /\ arrived["search"] = "pending"
    /\ arrived' = [arrived EXCEPT !["search"] = IF ok THEN "arrived" ELSE "failed"]
    /\ LET results == searchYouTubeVideos(variant, Reply(ok))
       IN  IF results.threw
           THEN /\ searchError' = <<results.message>>
                /\ videos' = <<>>
           ELSE /\ videos' = results.value
                /\ searchError' = searchError
    /\ searchLoading' = FALSE
    /\ UNCHANGED <<response, variant, newsResult, tagsResult, hasSearched>>

restOfExtract == <<pollerVars, startedBy, mergedFirst, freshVars, newsVars, formVars, moreVars>>

NextExtract ==
    \/ \E ok \in BOOLEAN : AskNews(ok) /\ UNCHANGED restOfExtract
    \/ \E ok \in BOOLEAN : AskTags(ok) /\ UNCHANGED restOfExtract
    \/ SearchStart /\ UNCHANGED restOfExtract
    \/ \E ok \in BOOLEAN : SearchEnd(ok) /\ UNCHANGED restOfExtract

SpecExtract == InitExtract /\ [][NextExtract]_vars

\* what YouTubePanel renders under "Search Results"
PanelView ==
    IF searchLoading THEN "loading"
    ELSE IF searchError # <<>> THEN "error"
    ELSE IF ~hasSearched THEN "idle"
    ELSE IF Len(videos) > 0 THEN "results"
    ELSE "noVideos"

\* ------------------------------------------------------------ C15
\* the symbols of a text
Range(s) == { s[k] : k \in 1..Len(s) }

\* what each caller that got the response hands back, when the extraction
\* recovered the elements of array a in order
RecoveredBy(a) ==
    /\ arrived["news"] = "arrived" => newsResult = <<a>>
    /\ arrived["tags"] = "arrived" /\ (\A k \in 1..Len(a.items) : a.items[k].t = "str")
          => tagsResult = <<Arr([k \in 1..Len(a.items) |-> Str(normalizeTag(a.items[k].text))])>>
    /\ arrived["search"] = "arrived"
          => /\ searchError = <<>>
             /\ videos = [k \in 1..Len(a.items) |-> mapVideo(a.items[k])]

\* C15 as stated: whenever the response holds one valid JSON array, bare or
\* in a fenced block (tagged json or not), with or without prose around it,
\* each of the three callers recovers exactly the elements of that array in
\* order, nested arrays and objects included.
C15_ExtractRecoversArray ==
    response.array # <<>> => RecoveredBy(response.array[1])

\* the response has no triple backtick but those of its fenced block, and
\* where the array is not in a fenced block the prose has no bracket
PlainProse ==
    /\ Fence \notin Range(response.prose)
    /\ Fence \notin Range(Render(response.array[1]))
    /\ response.fenced \/ (Range(response.prose) \cap {"[", "]"} = {})

\* C15 amended: whenever the response holds one valid JSON array, bare or in
\* a fenced block, with or without prose around it, and it has no triple
\* backtick other than those of the fenced block and, when the array is not
\* fenced, no square bracket in the prose, each of the three callers
\* recovers exactly the elements of that array in order, nested arrays and
\* objects included.
C15_ExtractRecoversArrayPlainProse ==
    response.array # <<>> /\ PlainProse => RecoveredBy(response.array[1])

\* C15 witness: a two-element array with a nested array in it, in a fenced
\* block tagged json with prose on both sides, has reached all three callers
C15_Witness ==
    /\ response.array # <<>>
    /\ PlainProse
    /\ response.fenced
    /\ response.text[1] = "a"
    /\ response.text[Len(response.text)] = "b"
    /\ "json" \in Range(response.text)
    /\ Len(response.array[1].items) = 2
    /\ \E k \in 1..2 : response.array[1].items[k].t = "arr"
    /\ \A c \in Callers : arrived[c] = "arrived"
    /\ Len(videos) = 2
    /\ newsResult = <<response.array[1]>>

\* ------------------------------------------------------------ C16
\* the response text lacks an opening or a closing square bracket
NoBracketPair ==
    "[" \notin Range(response.text) \/ "]" \notin Range(response.text)

\* C16: whenever the response text has no '[' or no ']', a lenient caller
\* that got it (fetchAndSummarizeNews, generateTagsForNewsSource) has
\* returned an empty sequence, and the strict caller that got it
\* (searchYouTubeVideos with tags) has raised an error instead of returning
\* a list.
C16_NoBracketsLenientEmptyStrictRaises ==
    NoBracketPair =>
        /\ arrived["news"] = "arrived" => newsResult = <<Arr(<<>>)>>
        /\ arrived["tags"] = "arrived" => tagsResult = <<Arr(<<>>)>>
        /\ arrived["search"] = "arrived" => searchError # <<>>

\* ------------------------------------------------------------ C17
\* C17: whenever the slice from the first '[' to the last ']' does not
\* parse, a lenient caller that got the response has returned an empty
\* sequence and the panel of the strict caller that got it shows its error
\* state with no videos; and the panel shows "No videos found" only when the
\* response parsed to an empty array.
C17_ParseFailureAndNoVideos ==
    /\ ExtractArray(response.text).kind = "invalid" =>
          /\ arrived["news"] = "arrived" => newsResult = <<Arr(<<>>)>>
          /\ arrived["tags"] = "arrived" => tagsResult = <<Arr(<<>>)>>
          /\ arrived["search"] = "arrived" =>
                PanelView = "error" /\ videos = <<>>
    /\ PanelView = "noVideos" =>
          /\ ExtractArray(response.text).kind = "parsed"
          /\ ExtractArray(response.text).value = Arr(<<>>)

\* =================================================== the news accumulator
\* NewsDisplay of NewsPanel.tsx. An article is modelled by its link.
MaxRefreshes == 1    \* times the hourly interval fires in one behaviour

Links == {"l1", "l2"}

\* the batches fetchAndSummarizeNews may resolve with
Batches == { <<>>, <<"l1">>, <<"l2">>, <<"l2", "l1">>, <<"l1", "l1">> }

\* the answers to one fetch: a batch, or a failure, which
\* fetchAndSummarizeNews catches and turns into its empty result
FetchAnswers ==
    { [ok |-> TRUE, fetched |-> b] : b \in Batches }
    \cup { [ok |-> FALSE, fetched |-> fetchAndSummarizeNews(<<>>).items] }

\* prev[source.id] || []
Known(entry) == IF entry = <<>> THEN <<>> ELSE entry[1]

\* mutant: the fetched batch replaces the accumulated list
mergeArticles_FetchedOnly(currentArticles, fetchedArticles) == fetchedArticles

\* the updater of setArticles in fetchNewsForSource:
\* [...newUniqueArticles, ...currentArticles]
mergeArticles(currentArticles, fetchedArticles) ==
    LET currentLinks == Range(currentArticles)
        newUniqueArticles == SelectSeq(fetchedArticles, LAMBDA a : a \notin currentLinks)
    IN  newUniqueArticles \o currentArticles

\* the sources the effect on [sources, articles] starts a fetch for
Unfetched(arts) == { s \in SourceIds : arts[s] = <<>> }

InitNews ==
    /\ PollerOff
    /\ FreshOff
    /\ ExtractOff
    /\ FormOff
    /\ MoreOff
    /\ NewsOff

\* NewsDisplay mounts: the effect calls fetchNewsForSource(source, false)
\* for every source, each up to its await
MountNews ==
    /\ ~newsShown
    /\ newsShown' = TRUE
    /\ loadingSources' = [s \in SourceIds |-> TRUE]
    /\ pendingFetches' = [p \in SourceIds \X BOOLEAN |->
                             IF p[2] THEN pendingFetches[p] ELSE pendingFetches[p] + 1]
    /\ UNCHANGED <<articles, refreshes, newsLast>>

\* the hourly interval: refreshAllNews calls fetchNewsForSource(source, true)
\* for every source, each up to its await
RefreshAll ==
    /\ newsShown
    /\ refreshes < MaxRefreshes
    /\ refreshes' = refreshes + 1
    /\ pendingFetches' = [p \in SourceIds \X BOOLEAN |->
                             IF p[2] THEN pendingFetches[p] + 1 ELSE pendingFetches[p]]
    /\ UNCHANGED <<newsShown, articles, loadingSources, newsLast>>

\* fetchNewsForSource(source, isBackgroundRefresh) from the settling of
\* fetchAndSummarizeNews to its end, and the effect the new articles object
\* sets off: a fetch for every source whose articles are still undefined.
\* fetchAndSummarizeNews never rejects, so the catch block is not entered
FetchDone(s, isBackgroundRefresh, answer) ==
    /\ newsShown
    /\ pendingFetches[<<s, isBackgroundRefresh>>] > 0
    /\ articles' = [articles EXCEPT
                       ![s] = <<mergeArticles(Known(articles[s]), answer.fetched)>>]
    /\ loadingSources' = [u \in SourceIds |->
           IF u \in Unfetched(articles') THEN TRUE
           ELSE IF u = s /\ ~isBackgroundRefresh THEN FALSE
           ELSE loadingSources[u]]
    /\ pendingFetches' = [p \in SourceIds \X BOOLEAN |->
           IF p = <<s, isBackgroundRefresh>> THEN pendingFetches[p] - 1
           ELSE IF ~p[2] /\ p[1] \in Unfetched(articles') THEN pendingFetches[p] + 1
           ELSE pendingFetches[p]]
    /\ newsLast' = [source |-> s, background |-> isBackgroundRefresh, ok |-> answer.ok,
                    fetched |-> answer.fetched, before |-> articles[s]]
    /\ UNCHANGED <<newsShown, refreshes>>

restOfNews == <<pollerVars, startedBy, mergedFirst, freshVars, extractVars, formVars, moreVars>>

NextNews ==
    \/ MountNews /\ UNCHANGED restOfNews
    \/ RefreshAll /\ UNCHANGED restOfNews
    \/ \E s \in SourceIds, b \in BOOLEAN, answer \in FetchAnswers :
           FetchDone(s, b, answer) /\ UNCHANGED restOfNews

SpecNews == InitNews /\ [][NextNews]_vars

\* ------------------------------------------------------------ C18
\* C18: the accumulated article list of every news source holds each link
\* at most once, whatever fetches (initial, background, overlapping) have
\* completed for it.
C18_EachLinkOnce ==
    \A s \in SourceIds :
        \A i, j \in 1..Len(Known(articles[s])) :
            Known(articles[s])[i] = Known(articles[s])[j] => i = j

\* ------------------------------------------------------------ C19
\* list old is the tail of list new
IsTail(old, new) ==
    /\ Len(old) <= Len(new)
    /\ old = SubSeq(new, Len(new) - Len(old) + 1, Len(new))

\* C19: no step removes or reorders the accumulated articles of a source:
\* a list, once defined, stays defined and is the tail of the list after
\* the step; a fetch that failed or brought an empty batch, in the
\* background or not, leaves every list of accumulated articles as it was;
\* and a first fetch, not in the background, that failed leaves its source
\* with a defined, empty list.
C19_FetchOnlyPrepends ==
    [][ /\ \A s \in SourceIds :
              articles[s] # <<>> =>
                  articles'[s] # <<>> /\ IsTail(articles[s][1], articles'[s][1])
        /\ \A s \in SourceIds, b \in BOOLEAN :
              /\ pendingFetches'[<<s, b>>] = pendingFetches[<<s, b>>] - 1
              /\ newsLast'.fetched = <<>>
              => /\ articles'[s] = <<Known(articles[s])>>
                 /\ \A u \in SourceIds \ {s} : articles'[u] = articles[u]
        /\ \A s \in SourceIds :
              /\ pendingFetches'[<<s, FALSE>>] = pendingFetches[<<s, FALSE>>] - 1
              /\ ~newsLast'.ok
              /\ articles[s] = <<>>
              => articles'[s] = <<<<>>>>
      ]_vars

\* C19 witness: a background fetch has just failed for a source that had
\* two articles accumulated, and the two are still there in their order,
\* while the first fetch of the other source failed and left it an empty list
C19_Witness ==
    /\ ~newsLast.ok
    /\ newsLast.background
    /\ newsLast.before = <<<<"l2", "l1">>>>
    /\ articles[newsLast.source] = <<<<"l2", "l1">>>>
    /\ \E u \in SourceIds \ {newsLast.source} : articles[u] = <<<<>>>>

\* ================================================= the add-repository form
\* AddRepositoryForm of RepositoryPanels.tsx with App.handleAddRepo
MaxSubmits == 3      \* times the form is submitted in one behaviour

InvalidUrlMessage == "Invalid GitHub repository URL."
AlreadyAddedMessage == "Repository already added."
CouldNotFetchMessage == "Could not fetch repository. Please check the URL and try again."

\* what the user may type into the field
FormUrls ==
    { HtmlUrl(1),
      HtmlUrl(2),
      Url("github.com", <<"Acme", "App">>),
      Url("github.com", <<"acme", "app", "issues">>),
      Url("github.com", <<"acme">>),
      Url("www.github.com", <<"acme", "app">>),
      Url("github.com", <<"acme", "gone">>),
      BadUrl }

\* the tracked lists the form may be rendered with
StoredTracked ==
    StoredRepositories
    \cup { <<newRepo(p[1]), newRepo(p[2])>> :
               p \in { q \in RepoIds \X RepoIds : q[1] # q[2] } }

\* parseRepoUrl(url) of the field's text; new URL('') throws
parseField(field) == IF field = <<>> THEN Absent ELSE parseRepoUrl(field[1])

\* mutant: only the newest entry is compared
alreadyAdded_NewestOnly(repos, parsed) ==
    Len(repos) > 0 /\ repos[1].fullName = <<parsed.owner, parsed.repo>>

\* repositories.some(r => r.fullName === `${parsed.owner}/${parsed.repo}`)
alreadyAdded(repos, parsed) ==
    \E k \in 1..Len(repos) : repos[k].fullName = <<parsed.owner, parsed.repo>>

InitAdd ==
    /\ repositories \in StoredTracked
    /\ mounted = FALSE
    /\ isChecking = TRUE
    /\ savedCallback = <<>>
    /\ checks = <<>>
    /\ upstream = [id \in RepoIds |-> <<>>]
    /\ published = 0
    /\ now = 0
    /\ acked = {}
    /\ checkedAt = [id \in RepoIds |-> -1]
    /\ last = Quiet
    /\ startedBy = <<>>
    /\ mergedFirst = <<>>
    /\ FreshOff
    /\ ExtractOff
    /\ NewsOff
    /\ FormOff
    /\ MoreOff

\* onChange of the input, which is disabled while isLoading
TypeUrl(u) ==
    /\ ~formIsLoading
    /\ formUrl' = <<u>>
    /\ UNCHANGED <<repositories, formError, formIsLoading, formPending,
                   submits, detailsRequests>>

\* handleSubmit up to its first return or its await; the submit button is
\* disabled while isLoading and while the field is empty
SubmitForm ==
    /\ ~formIsLoading
    /\ formUrl # <<>>
    /\ submits < MaxSubmits
    /\ submits' = submits + 1
    /\ LET parsed == parseField(formUrl)
       IN  IF parsed = Absent
           THEN /\ formError' = <<InvalidUrlMessage>>
                /\ formIsLoading' = FALSE
                /\ UNCHANGED <<formPending, detailsRequests>>
           ELSE IF alreadyAdded(repositories, parsed[1])
           THEN /\ formError' = <<AlreadyAddedMessage>>
                /\ formIsLoading' = FALSE
                /\ UNCHANGED <<formPending, detailsRequests>>
           ELSE /\ formError' = <<>>
                /\ formIsLoading' = TRUE
                /\ formPending' = parsed
                /\ detailsRequests' = detailsRequests + 1
    /\ UNCHANGED <<repositories, formUrl>>

\* handleSubmit from the settling of fetchRepoDetails to its end: the
\* request fails (network, or no such repository), or it answers and the
\* new entry goes to App.handleAddRepo
DetailsArrive(ok) ==
    /\ formPending # <<>>
    /\ LET found == ResolveRepo(formPending[1].owner, formPending[1].repo)
       IN  IF ok /\ found # {}
           THEN /\ repositories' = handleAddRepo(newRepo(CHOOSE d \in found : TRUE))
                /\ formUrl' = <<>>
                /\ formError' = formError
           ELSE /\ formError' = <<CouldNotFetchMessage>>
                /\ UNCHANGED <<repositories, formUrl>>
    /\ formIsLoading' = FALSE
    /\ formPending' = <<>>
    /\ UNCHANGED <<submits, detailsRequests>>

restOfAdd == <<mounted, isChecking, savedCallback, checks, upstream, published, now,
               acked, checkedAt, last, startedBy, mergedFirst,
               freshVars, extractVars, newsVars, moreVars>>

NextAdd ==
    \/ \E u \in FormUrls : TypeUrl(u) /\ UNCHANGED restOfAdd
    \/ SubmitForm /\ UNCHANGED restOfAdd
    \/ \E ok \in BOOLEAN : DetailsArrive(ok) /\ UNCHANGED restOfAdd

SpecAdd == InitAdd /\ [][NextAdd]_vars

\* ------------------------------------------------------------ C20
\* the owner/repo the field's URL names is the fullName of a tracked entry
NamesTracked ==
    /\ formUrl # <<>>
    /\ formUrl[1].valid
    /\ formUrl[1].hostname = "github.com"
    /\ Len(formUrl[1].pathParts) >= 2
    /\ \E k \in 1..Len(repositories) :
           repositories[k].fullName = <<formUrl[1].pathParts[1], formUrl[1].pathParts[2]>>

\* the field's text is no URL of a GitHub repository
NamesNothing ==
    \/ formUrl = <<>>
    \/ ~formUrl[1].valid
    \/ formUrl[1].hostname # "github.com"
    \/ Len(formUrl[1].pathParts) < 2

\* C20: every submission of a URL whose owner/repo is the fullName of a
\* tracked entry ends with the error 'Repository already added.', calls
\* fetchRepoDetails not once and leaves the tracked list as it was; every
\* submission of an invalid URL ends the same way with the error 'Invalid
\* GitHub repository URL.'.
C20_DuplicateAndInvalidRejected ==
    [][ submits' = submits + 1 /\ (NamesTracked \/ NamesNothing) =>
          /\ formError' = <<IF NamesTracked THEN AlreadyAddedMessage
                            ELSE InvalidUrlMessage>>
          /\ detailsRequests' = detailsRequests
          /\ formPending' = <<>>
          /\ ~formIsLoading'
          /\ repositories' = repositories
      ]_vars

\* C20 witness: with two repositories tracked, an invalid URL and then the
\* URL of the older tracked entry were submitted; the second was turned away
\* as already added, and fetchRepoDetails was never called
C20_Witness ==
    /\ Len(repositories) = 2
    /\ submits = 2
    /\ detailsRequests = 0
    /\ formError = <<AlreadyAddedMessage>>
    /\ formUrl = <<repositories[2].url>>
    /\ ~formIsLoading

\* ------------------------------------------------------------ C30
\* C30: for each news source, no step starts an initial (non-background)
\* fetch while one is outstanding for that source, the loading indicator of
\* a source is true while its initial fetch is outstanding, and a source
\* whose initial fetch has completed has a defined article list and gets no
\* further initial fetch.
C30_OneInitialFetch ==
    [][ \A s \in SourceIds :
          /\ pendingFetches[<<s, FALSE>>] > 0 =>
                pendingFetches'[<<s, FALSE>>] <= pendingFetches[<<s, FALSE>>]
          /\ pendingFetches'[<<s, FALSE>>] > 0 => loadingSources'[s]
          /\ pendingFetches'[<<s, FALSE>>] < pendingFetches[<<s, FALSE>>] =>
                articles'[s] # <<>>
          /\ articles[s] # <<>> =>
                pendingFetches'[<<s, FALSE>>] <= pendingFetches[<<s, FALSE>>]
      ]_vars

\* ------------------------------------------------------------ C27
\* C27: no two entries of the tracked list have the same id, whatever URLs
\* were submitted through the form: a URL that GitHub resolves to a tracked
\* repository never leaves a second entry of that id.
C27_NoTwoEntriesOfOneId ==
    \A i, j \in 1..Len(repositories) :
        repositories[i].id = repositories[j].id => i = j

\* ------------------------------------------------------------ C28
\* C28: the merge of a check never adds an entry: every id tracked after the
\* merge was tracked before it, so a repository removed while the check was
\* in flight is not put back by that check.
C28_MergeNeverPutsBack ==
    [][ last'.op = "merge" => Ids(repositories') \subseteq Ids(repositories) ]_vars

\* C28 witness: a check has just merged whose results hold a repository
\* that was removed while the check was in flight, and the repository is
\* not tracked
C28_Witness ==
    /\ last.op = "merge"
    /\ \E j \in 1..Len(last.batch) : last.batch[j][1].value.id \notin Ids(repositories)

\* ====================================================== tag normalization
MaxTagLen == 3       \* characters of a tag

\* the characters of a tag: letters in both cases, and a letter whose upper
\* case is two characters long
TagChars == {"a", "A", "i", "I", "ß"}

TagTexts == UNION { [1..n -> TagChars] : n \in 0..MaxTagLen }

InitTags ==
    /\ PollerOff
    /\ FreshOff
    /\ ExtractOff
    /\ NewsOff
    /\ FormOff
    /\ SourceOff
    /\ TubeOff
    /\ dateNow = 0
    /\ ChatOff
    /\ tagText \in TagTexts
    /\ tagStage = 0
    /\ tagOut = <<>>

\* generateTagsForNewsSource(url) where the AI answers with the one tag
ExtractTag ==
    /\ tagStage = 0
    /\ tagStage' = 1
    /\ tagOut' = LET tags == generateTagsForNewsSource(<<Render(Arr(<<Str(tagText)>>))>>)
                 IN  [k \in 1..Len(tags.items) |-> tags.items[k].text]
    /\ UNCHANGED tagText

\* the mapper of generateTagsForNewsSource on a tag it has produced
NormalizeAgain ==
    /\ tagStage = 1
    /\ Len(tagOut) = 1
    /\ tagStage' = 2
    /\ tagOut' = Append(tagOut, normalizeTag(tagOut[1]))
    /\ UNCHANGED tagText

restOfTags == <<pollerVars, startedBy, mergedFirst, freshVars, extractVars, newsVars,
                formVars, sourceVars, tubeVars, dateNow, chatVars>>

NextTags ==
    \/ ExtractTag /\ UNCHANGED restOfTags
    \/ NormalizeAgain /\ UNCHANGED restOfTags

SpecTags == InitTags /\ [][NextTags]_vars

\* ------------------------------------------------------------ C23
\* the extracted tag is the upper case of the first character of the tag
\* followed by the lower case of each of the others; AI, ai and Ai give Ai
NormalizedOnce ==
    tagStage >= 1 =>
        /\ Len(tagOut) >= 1
        /\ tagText = <<>> => tagOut[1] = <<>>
        /\ tagText # <<>> =>
              LET head == toUpperCase(tagText[1])
              IN  /\ Len(tagOut[1]) = Len(head) + Len(tagText) - 1
                  /\ SubSeq(tagOut[1], 1, Len(head)) = head
                  /\ \A k \in 2..Len(tagText) :
                         tagOut[1][Len(head) + k - 1] = toLowerCase(tagText[k])
        /\ tagText \in {<<"A", "I">>, <<"a", "i">>, <<"A", "i">>} => tagOut[1] = <<"A", "i">>

\* C23 as stated: every tag extracted by generateTagsForNewsSource is the
\* tag with its first character upper-cased and the rest lower-cased (AI, ai
\* and Ai all give Ai), and normalizing the result again gives the same
\* string.
C23_NormalizeTagIdempotent ==
    /\ NormalizedOnce
    /\ tagStage = 2 => tagOut[2] = tagOut[1]

\* C23 amended: every tag extracted by generateTagsForNewsSource is the tag
\* with its first character upper-cased and the rest lower-cased (AI, ai and
\* Ai all give Ai), and, for a tag whose first character has an upper case
\* of one character, normalizing the result again gives the same string.
C23_NormalizeTagIdempotentSingleUpper ==
    /\ NormalizedOnce
    /\ tagStage = 2 /\ (tagText = <<>> \/ Len(toUpperCase(tagText[1])) = 1)
          => tagOut[2] = tagOut[1]

\* C23 witness: the tag aI was extracted as Ai and normalized again to Ai
C23_Witness ==
    /\ tagText = <<"a", "I">>
    /\ tagStage = 2
    /\ tagOut = << <<"A", "i">>, <<"A", "i">> >>

\* ------------------------------------------------------------ C24
\* the thumbnailUrl members of a video
Thumbs(video) == { k \in 1..Len(video.keys) : video.keys[k] = <<"thumbnailUrl">> }

\* C24: every video a search has returned has exactly one thumbnailUrl, and
\* it is https://i.ytimg.com/vi/ followed by the video's id and
\* /hqdefault.jpg, whatever thumbnailUrl the AI's element carried.
C24_ThumbnailFromId ==
    arrived["search"] = "arrived" /\ searchError = <<>> =>
        \A k \in 1..Len(videos) :
            /\ Cardinality(Thumbs(videos[k])) = 1
            /\ \A j \in Thumbs(videos[k]) :
                   videos[k].items[j] =
                       Str(<<"https://i.ytimg.com/vi/">> \o IdText(videos[k])
                               \o <<"/hqdefault.jpg">>)

\* C24 witness: the AI's element came with the id x and a thumbnailUrl u,
\* and the search returned it with the thumbnailUrl made from x
C24_Witness ==
    /\ arrived["search"] = "arrived"
    /\ searchError = <<>>
    /\ response.array # <<>>
    /\ Len(response.array[1].items) = 1
    /\ response.array[1].items[1].t = "obj"
    /\ \E j \in Thumbs(response.array[1].items[1]) :
           response.array[1].items[1].items[j] = Str(<<"u">>)
    /\ Len(videos) = 1
    /\ IdText(videos[1]) = <<"x">>
    /\ \E j \in Thumbs(videos[1]) :
           videos[1].items[j] = Str(<<"https://i.ytimg.com/vi/", "x", "/hqdefault.jpg">>)

\* ====================================================== YouTubePanel tags
\* handleAddTag and handleRemoveTag of YouTubePanel
MaxTagSubmits == 3   \* times the tag form is submitted in one behaviour
MaxTagRemovals == 1  \* tags removed in one behaviour

Rust == <<"R", "u", "s", "t">>
Systems == <<"S", "y", "s", "t", "e", "m", "s">>

\* what the user may type into the tag field
NewTagTexts ==
    { Rust,
      <<"r", "u", "s", "t">>,
      <<"R", "U", "S", "T">>,
      <<Space, "r", "u", "s", "t", Space>>,
      Systems,
      <<Space>> }

\* String.prototype.toLowerCase
lowerText(s) == [k \in 1..Len(s) |-> toLowerCase(s[k])]

\* mutant: the names are compared as they are
sameName_Exact(a, b) == a = b

\* t.name.toLowerCase() === tagName.toLowerCase()
sameName(a, b) == lowerText(a) = lowerText(b)

\* what useLocalStorage('youtubeTags', []) can find on load
StoredTags == { <<>>, <<[id |-> 0, name |-> Systems]>> }

InitTube ==
    /\ PollerOff
    /\ FreshOff
    /\ ExtractOff
    /\ NewsOff
    /\ FormOff
    /\ TagOff
    /\ SourceOff
    /\ ChatOff
    /\ tubeTags \in StoredTags
    /\ newTag = <<>>
    /\ tubeLast = [submitted |-> <<>>, removed |-> 0]
    /\ dateNow = 1

\* onChange of the tag field
TypeTag(t) ==
    /\ newTag' = t
    /\ UNCHANGED <<tubeTags, tubeLast, dateNow>>

\* handleAddTag; the submit button is disabled while newTag.trim() is empty.
\* Time passes before the user can submit again
handleAddTag ==
    /\ trim(newTag) # <<>>
    /\ Len(tubeLast.submitted) < MaxTagSubmits
    /\ LET tagName == trim(newTag)
       IN  IF tagName # <<>>
              /\ ~\E k \in 1..Len(tubeTags) : sameName(tubeTags[k].name, tagName)
           THEN /\ tubeTags' = Append(tubeTags, [id |-> dateNow, name |-> tagName])
                /\ newTag' = <<>>
           ELSE UNCHANGED <<tubeTags, newTag>>
    /\ tubeLast' = [tubeLast EXCEPT !.submitted = Append(@, newTag)]
    /\ dateNow' = dateNow + 1

\* handleRemoveTag(id), from the cross on a tag
handleRemoveTag(id) ==
    /\ tubeLast.removed < MaxTagRemovals
    /\ \E k \in 1..Len(tubeTags) : tubeTags[k].id = id
    /\ tubeTags' = SelectSeq(tubeTags, LAMBDA t : t.id # id)
    /\ tubeLast' = [tubeLast EXCEPT !.removed = @ + 1]
    /\ UNCHANGED <<newTag, dateNow>>

restOfTube == <<pollerVars, startedBy, mergedFirst, freshVars, extractVars, newsVars,
                formVars, tagVars, sourceVars, chatVars>>

NextTube ==
    \/ \E t \in NewTagTexts : TypeTag(t) /\ UNCHANGED restOfTube
    \/ handleAddTag /\ UNCHANGED restOfTube
    \/ \E id \in 0..MaxTagSubmits : handleRemoveTag(id) /\ UNCHANGED restOfTube

SpecTube == InitTube /\ [][NextTube]_vars

\* ------------------------------------------------------------ C22
\* the names of the tags, in order
TagNames(tags) == [k \in 1..Len(tags) |-> tags[k].name]

\* C22: after every step no two tags have names that are equal ignoring
\* letter case; a submitted name that equals the name of a tag ignoring letter
\* case leaves the tags as they were; and Rust, rust and Systems submitted
\* in this order to an empty panel, with no removal, leave exactly the tags
\* Rust and Systems.
C22_TagNamesUniqueIgnoringCase ==
    [][ /\ \A i, j \in 1..Len(tubeTags') :
              lowerText(tubeTags'[i].name) = lowerText(tubeTags'[j].name) => i = j
        /\ /\ Len(tubeLast'.submitted) = Len(tubeLast.submitted) + 1
           /\ \E k \in 1..Len(tubeTags) :
                  lowerText(tubeTags[k].name) = lowerText(trim(newTag))
           => tubeTags' = tubeTags
        /\ /\ tubeLast'.submitted = <<Rust, <<"r", "u", "s", "t">>, Systems>>
           /\ tubeLast'.removed = 0
           /\ \A k \in 1..Len(tubeTags') : tubeTags'[k].id # 0
           => TagNames(tubeTags') = <<Rust, Systems>>
      ]_vars

\* C22 witness: Rust, rust and Systems were submitted in this order to an
\* empty panel and the tags are Rust and Systems
C22_Witness ==
    /\ tubeLast.submitted = <<Rust, <<"r", "u", "s", "t">>, Systems>>
    /\ tubeLast.removed = 0
    /\ TagNames(tubeTags) = <<Rust, Systems>>

\* ====================================================== AddNewsSourceForm
\* AddNewsSourceForm of NewsPanel.tsx with App.handleAddNewsSource and
\* App.handleRemoveNewsSource
MaxSourceAdds == 2      \* sources added in one behaviour
MaxUrlSubmits == 2      \* times the URL form is submitted in one behaviour

AlreadyAddedSource == "News source already added."
InvalidSourceUrl == "Please enter a valid URL."

\* a string new URL() accepts: its protocol, host and pathname
WebUrl(scheme, host, path) == [valid |-> TRUE, scheme |-> scheme, host |-> host, path |-> path]
\* a string new URL() throws on
BadWebUrl == [valid |-> FALSE, scheme |-> "", host |-> "", path |-> ""]

\* the URL parser lower-cases the host
lowerHost(h) == IF h = "TechCrunch.com" THEN "techcrunch.com" ELSE h

\* new URL(u).origin: protocol and host, the path discarded
origin(u) == WebUrl(u.scheme, lowerHost(u.host), "")

\* what the user may type into the URL field
SourceUrls ==
    { WebUrl("https", "techcrunch.com", ""),
      WebUrl("https", "techcrunch.com", "/feed"),
      WebUrl("https", "TechCrunch.com", ""),
      WebUrl("https", "theverge.com", ""),
      BadWebUrl }

\* what generateTagsForNewsSource can resolve to (it never rejects)
TagAnswers == { <<>>, << <<"A", "i">> >> }

\* what the user may submit as a custom tag
CustomTags == { <<"a", "I">>, <<Space>> }

\* what useLocalStorage('newsSources', []) can find on load
StoredSources ==
    { <<>>,
      <<[id |-> 0, url |-> WebUrl("https", "techcrunch.com", ""), tags |-> <<>>]>> }

InitSources ==
    /\ PollerOff
    /\ FreshOff
    /\ ExtractOff
    /\ NewsOff
    /\ FormOff
    /\ TagOff
    /\ TubeOff
    /\ ChatOff
    /\ newsSources \in StoredSources
    /\ srcUrl = <<>>
    /\ srcError = <<>>
    /\ srcIsLoading = FALSE
    /\ srcStep = "input"
    /\ srcSuggested = <<>>
    /\ srcSelected = <<>>
    /\ srcPending = <<>>
    /\ srcTagRequests = 0
    /\ srcLast = [submits |-> 0, op |-> "none"]
    /\ dateNow = 1

\* onChange of the URL field; the field is rendered in the input step and
\* is not disabled while the tags are awaited
TypeSourceUrl(text) ==
    /\ srcStep = "input"
    /\ srcUrl' = text
    /\ UNCHANGED <<newsSources, srcError, srcIsLoading, srcStep, srcSuggested, srcSelected,
                   srcPending, srcTagRequests, srcLast, dateNow>>

\* handleUrlSubmit up to its await; the submit button is disabled while the
\* field is empty or isLoading
handleUrlSubmit ==
    /\ srcStep = "input"
    /\ srcUrl # <<>>
    /\ ~srcIsLoading
    /\ srcLast.submits < MaxUrlSubmits
    /\ IF ~srcUrl[1].valid
       THEN /\ srcError' = <<InvalidSourceUrl>>
            /\ srcIsLoading' = FALSE
            /\ srcLast' = [submits |-> srcLast.submits + 1, op |-> "invalid"]
            /\ UNCHANGED <<srcPending, srcTagRequests>>
       ELSE LET normalizedUrl == origin(srcUrl[1])
            IN  IF \E k \in 1..Len(newsSources) : origin(newsSources[k].url) = normalizedUrl
                THEN /\ srcError' = <<AlreadyAddedSource>>
                     /\ srcIsLoading' = FALSE
                     /\ srcLast' = [submits |-> srcLast.submits + 1, op |-> "rejected"]
                     /\ UNCHANGED <<srcPending, srcTagRequests>>
                ELSE /\ srcError' = <<>>
                     /\ srcIsLoading' = TRUE
                     /\ srcPending' = <<normalizedUrl>>
                     /\ srcTagRequests' = srcTagRequests + 1
                     /\ srcLast' = [submits |-> srcLast.submits + 1, op |-> "requested"]
    /\ UNCHANGED <<newsSources, srcUrl, srcStep, srcSuggested, srcSelected, dateNow>>

\* the rest of handleUrlSubmit, once generateTagsForNewsSource has resolved.
\* The tags step renders new URL(url).hostname, which throws when the field
\* no longer holds a URL: the component tree is then gone
TagsArrive(tags) ==
    /\ srcPending # <<>>
    /\ srcPending' = <<>>
    /\ srcSuggested' = tags
    /\ srcSelected' = tags
    /\ srcStep' = IF srcUrl # <<>> /\ srcUrl[1].valid THEN "tags" ELSE "crashed"
    /\ srcIsLoading' = FALSE
    /\ srcLast' = [srcLast EXCEPT !.op = "tags"]
    /\ UNCHANGED <<newsSources, srcUrl, srcError, srcTagRequests, dateNow>>

\* membership in a Set kept in insertion order
hasTag(selected, tag) == \E k \in 1..Len(selected) : selected[k] = tag

\* toggleTag(tag), from a suggested tag's button
toggleTag(tag) ==
    /\ srcStep = "tags"
    /\ hasTag(srcSuggested, tag)
    /\ srcSelected' = IF hasTag(srcSelected, tag)
                      THEN SelectSeq(srcSelected, LAMBDA t : t # tag)
                      ELSE Append(srcSelected, tag)
    /\ srcLast' = [srcLast EXCEPT !.op = "toggle"]
    /\ UNCHANGED <<newsSources, srcUrl, srcError, srcIsLoading, srcStep, srcSuggested,
                   srcPending, srcTagRequests, dateNow>>

\* handleAddCustomTag with customTag as typed
handleAddCustomTag(customTag) ==
    /\ srcStep = "tags"
    /\ LET formattedTag == normalizeTag(trim(customTag))
       IN  srcSelected' = IF formattedTag # <<>> /\ ~hasTag(srcSelected, formattedTag)
                          THEN Append(srcSelected, formattedTag)
                          ELSE srcSelected
    /\ srcLast' = [srcLast EXCEPT !.op = "custom"]
    /\ UNCHANGED <<newsSources, srcUrl, srcError, srcIsLoading, srcStep, srcSuggested,
                   srcPending, srcTagRequests, dateNow>>

\* setUrl(''), setError(null), setIsLoading(false), setStep('input'), ...
resetForm ==
    /\ srcUrl' = <<>>
    /\ srcError' = <<>>
    /\ srcIsLoading' = FALSE
    /\ srcStep' = "input"
    /\ srcSuggested' = <<>>
    /\ srcSelected' = <<>>

\* the back button of the tags step
BackToInput ==
    /\ srcStep = "tags"
    /\ resetForm
    /\ srcLast' = [srcLast EXCEPT !.op = "back"]
    /\ UNCHANGED <<newsSources, srcPending, srcTagRequests, dateNow>>

\* handleFinalSubmit with App.handleAddNewsSource; time passes before the
\* next source can be added
handleFinalSubmit ==
    /\ srcStep = "tags"
    /\ dateNow <= MaxSourceAdds
    /\ LET normalizedUrl == origin(srcUrl[1])
       IN  newsSources' = <<[id |-> dateNow, url |-> normalizedUrl, tags |-> srcSelected]>>
                            \o newsSources
    /\ resetForm
    /\ srcLast' = [srcLast EXCEPT !.op = "added"]
    /\ dateNow' = dateNow + 1
    /\ UNCHANGED <<srcPending, srcTagRequests>>

\* App.handleRemoveNewsSource(id)
handleRemoveNewsSource(id) ==
    /\ \E k \in 1..Len(newsSources) : newsSources[k].id = id
    /\ newsSources' = SelectSeq(newsSources, LAMBDA s : s.id # id)
    /\ UNCHANGED <<srcUrl, srcError, srcIsLoading, srcStep, srcSuggested, srcSelected,
                   srcPending, srcTagRequests, srcLast, dateNow>>

restOfSources == <<pollerVars, startedBy, mergedFirst, freshVars, extractVars, newsVars,
                   formVars, tagVars, tubeVars, chatVars>>

NextSources ==
    \/ \E u \in SourceUrls : TypeSourceUrl(<<u>>) /\ UNCHANGED restOfSources
    \/ TypeSourceUrl(<<>>) /\ UNCHANGED restOfSources
    \/ handleUrlSubmit /\ UNCHANGED restOfSources
    \/ \E tags \in TagAnswers : TagsArrive(tags) /\ UNCHANGED restOfSources
    \/ \E tag \in { <<"A", "i">> } : toggleTag(tag) /\ UNCHANGED restOfSources
    \/ \E t \in CustomTags : handleAddCustomTag(t) /\ UNCHANGED restOfSources
    \/ BackToInput /\ UNCHANGED restOfSources
    \/ handleFinalSubmit /\ UNCHANGED restOfSources
    \/ \E id \in 0..MaxSourceAdds : handleRemoveNewsSource(id) /\ UNCHANGED restOfSources

SpecSources == InitSources /\ [][NextSources]_vars

\* ------------------------------------------------------------ C21
\* C21: after every step no two tracked news sources have the same origin
\* (protocol and host, the path discarded); and a submitted URL whose origin
\* is that of a tracked source is answered with 'News source already added.'
\* with no request for tags issued and the sources left as they were.
C21_NoTwoSourcesOfOneOrigin ==
    [][ /\ \A i, j \in 1..Len(newsSources') :
              origin(newsSources'[i].url) = origin(newsSources'[j].url) => i = j
        /\ /\ srcLast'.submits = srcLast.submits + 1
           /\ srcUrl[1].valid
           /\ \E k \in 1..Len(newsSources) :
                  origin(newsSources[k].url) = origin(srcUrl[1])
           => /\ srcError' = <<AlreadyAddedSource>>
              /\ srcTagRequests' = srcTagRequests
              /\ newsSources' = newsSources
      ]_vars

\* ====================================================== chat stream
\* ChatWidget.handleSendMessage, streamChatResponse of both builds and the
\* relay's POST /api/gemini-chat-stream
MaxSends == 2    \* messages the user sends in one behaviour
MaxFrames == 2   \* chunks of one streamed response

SomethingWentWrong == <<"Sorry, something went wrong.">>

\* JSON.stringify(value): the JSON text without white space
RECURSIVE JSONstringify(_)
JSONstringify(value) ==
    CASE value.t = "str" -> <<Quote>> \o value.text \o <<Quote>>
      [] value.t = "num" -> value.text
      [] value.t = "arr" ->
            <<"[">> \o JoinTexts([k \in 1..Len(value.items) |->
                          JSONstringify(value.items[k])]) \o <<"]">>
      [] value.t = "obj" ->
            <<"{">> \o JoinTexts([k \in 1..Len(value.keys) |->
                          <<Quote>> \o value.keys[k] \o <<Quote, ":">>
                              \o JSONstringify(value.items[k])]) \o <<"}">>

\* a chunk of the SDK's stream, with its text
Chunk(text) == Obj(<< <<<<"text">>, Str(text)>> >>)

\* the text increments a chunk may carry
ChunkTexts == { <<"a">>, <<"b">> }

\* a payload JSON.parse throws on
Damaged == <<"{", Quote, "text", Quote, ":">>

\* what the frames of a response may carry when they reach the consumer: a
\* chunk as the relay serialized it, or a payload that is not JSON
Arrivals == [good : {TRUE}, text : ChunkTexts] \cup {[good |-> FALSE, text |-> <<>>]}

Payload(arrival) == IF arrival.good THEN JSONstringify(Chunk(arrival.text)) ELSE Damaged

\* the responses of at most MaxFrames chunks
StreamsOf(items) == UNION { [1..n -> items] : n \in 0..MaxFrames }

\* 'data: '
DataPrefix == <<"d", "a", "t", "a", ":", Space>>

\* `data: ${JSON.stringify(chunk)}\n\n`
Frame(payload) == DataPrefix \o payload \o <<NL, NL>>

\* String.prototype.startsWith
startsWith(s, prefix) == Len(s) >= Len(prefix) /\ SubSeq(s, 1, Len(prefix)) = prefix

\* value.split('\n\n')
RECURSIVE split(_)
split(s) ==
    LET seps == { i \in 1..(Len(s) - 1) : s[i] = NL /\ s[i + 1] = NL }
    IN  IF seps = {} THEN <<s>>
        ELSE LET i == CHOOSE e \in seps : \A f \in seps : e <= f
             IN  <<SubSeq(s, 1, i - 1)>> \o split(SubSeq(s, i + 2, Len(s)))

\* chunk.text as += appends it
chunkText(chunk) ==
    IF chunk.t = "obj" /\ \E k \in 1..Len(chunk.keys) : chunk.keys[k] = <<"text">>
    THEN ToText(chunk.items[CHOOSE k \in 1..Len(chunk.keys) : chunk.keys[k] = <<"text">>])
    ELSE <<"undefined">>

\* mutant: the chunk's text replaces what was received before
accumulate_Replace(text, chunk) == chunkText(chunk)

\* currentText += chunk.text
accumulate(text, chunk) == text \o chunkText(chunk)

\* mutant: a payload that does not parse ends the loop over the lines
afterBadChunk_Stop(lines) == <<>>

\* the catch around JSON.parse: the loop goes on with the next line
afterBadChunk(lines) == Tail(lines)

\* prev.map(msg => msg.id === id ? { ...msg, text } : msg)
withText(messages, id, text) ==
    [k \in 1..Len(messages) |->
        IF messages[k].id = id THEN [messages[k] EXCEPT !.text = text] ELSE messages[k]]

\* what the user may type into the chat field
ChatInputs == { <<"h", "i">>, <<Space>> }

\* what getComplexResponse can resolve to (it never rejects)
ComplexAnswers == { <<"ok">> }

InitChat ==
    /\ PollerOff
    /\ FreshOff
    /\ ExtractOff
    /\ NewsOff
    /\ FormOff
    /\ TagOff
    /\ SourceOff
    /\ TubeOff
    /\ dateNow = 0
    /\ chatBuild \in {"proxy", "direct"}
    /\ chatMessages = <<>>
    /\ chatInput = <<>>
    /\ chatIsLoading = FALSE
    /\ isThinkingMode = FALSE
    /\ chatPhase = "idle"
    /\ chatModelId = 0
    /\ currentText = <<>>
    /\ toWrite = <<>>
    /\ wire = <<>>
    /\ chatLines = <<>>
    /\ chatWritten = <<>>
    /\ chatEvents = <<>>

\* onChange of the chat field, which is disabled while isLoading
TypeChat(text) ==
    /\ ~chatIsLoading
    /\ chatInput' = text
    /\ UNCHANGED <<chatBuild, chatMessages, chatIsLoading, isThinkingMode, chatPhase,
                   chatModelId, currentText, toWrite, wire, chatLines, chatWritten,
                   chatEvents, dateNow>>

\* onChange of the thinking-mode switch
ToggleThinking ==
    /\ isThinkingMode' = ~isThinkingMode
    /\ UNCHANGED <<chatBuild, chatMessages, chatInput, chatIsLoading, chatPhase,
                   chatModelId, currentText, toWrite, wire, chatLines, chatWritten,
                   chatEvents, dateNow>>

\* the user messages so far
Sent == Len(SelectSeq(chatMessages, LAMBDA m : m.role = "user"))

\* handleSendMessage up to its first await, some time after the event before
\* it; the send button is disabled while isLoading. stream is what the
\* response will consist of
handleSendMessage(stream) ==
    /\ ~chatIsLoading
    /\ Sent < MaxSends
    /\ IF trim(chatInput) = <<>>
       THEN UNCHANGED <<chatMessages, chatInput, chatIsLoading, chatPhase, chatModelId,
                        currentText, toWrite, wire, chatLines, chatWritten, chatEvents,
                        dateNow>>
       ELSE LET time == dateNow + 1
                userMessage == [id |-> time, role |-> "user", text |-> chatInput]
                modelMessage == [id |-> time + 1, role |-> "model", text |-> <<>>]
            IN  /\ dateNow' = time
                /\ chatInput' = <<>>
                /\ chatIsLoading' = TRUE
                /\ IF isThinkingMode
                   THEN /\ chatMessages' = Append(chatMessages, userMessage)
                        /\ chatPhase' = "thinking"
                        /\ UNCHANGED <<chatModelId, currentText, toWrite, wire, chatLines,
                                       chatWritten, chatEvents>>
                   ELSE /\ chatMessages' = Append(Append(chatMessages, userMessage),
                                                  modelMessage)
                        /\ chatPhase' = "streaming"
                        /\ chatModelId' = modelMessage.id
                        /\ currentText' = <<>>
                        /\ toWrite' = stream
                        /\ wire' = <<>>
                        /\ chatLines' = <<>>
                        /\ chatWritten' = stream
                        /\ chatEvents' = <<>>
    /\ UNCHANGED <<chatBuild, isThinkingMode>>

\* the thinking-mode branch after getComplexResponse has resolved
ComplexArrive(text) ==
    /\ chatPhase = "thinking"
    /\ LET time == dateNow + 1
       IN  /\ chatMessages' = Append(chatMessages,
                                     [id |-> time + 1, role |-> "model", text |-> text])
           /\ dateNow' = time
    /\ chatIsLoading' = FALSE
    /\ chatPhase' = "idle"
    /\ UNCHANGED <<chatBuild, chatInput, isThinkingMode, chatModelId, currentText, toWrite,
                   wire, chatLines, chatWritten, chatEvents>>

\* the relay: res.write of the next chunk's frame
RelayWrite ==
    /\ chatBuild = "proxy"
    /\ chatPhase = "streaming"
    /\ toWrite # <<>>
    /\ wire' = wire \o Frame(Payload(Head(toWrite)))
    /\ toWrite' = Tail(toWrite)
    /\ UNCHANGED <<chatBuild, chatMessages, chatInput, chatIsLoading, isThinkingMode,
                   chatPhase, chatModelId, currentText, chatLines, chatWritten, chatEvents,
                   dateNow>>

\* reader.read() resolving with the next n symbols, and value.split('\n\n')
Read(n) ==
    /\ chatBuild = "proxy"
    /\ chatPhase = "streaming"
    /\ chatLines = <<>>
    /\ n \in 1..Len(wire)
    /\ chatLines' = split(SubSeq(wire, 1, n))
    /\ wire' = SubSeq(wire, n + 1, Len(wire))
    /\ UNCHANGED <<chatBuild, chatMessages, chatInput, chatIsLoading, isThinkingMode,
                   chatPhase, chatModelId, currentText, toWrite, chatWritten, chatEvents,
                   dateNow>>

\* the body of for await (const chunk of stream) in handleSendMessage
Yield(chunk) ==
    /\ currentText' = accumulate(currentText, chunk)
    /\ chatMessages' = withText(chatMessages, chatModelId, accumulate(currentText, chunk))
    /\ chatEvents' = Append(chatEvents, [kind |-> "chunk", text |-> chunkText(chunk)])

\* one turn of for (const line of lines) in streamChatResponse, with the
\* consumer's loop body where it yields
ProcessLine ==
    /\ chatPhase = "streaming"
    /\ chatLines # <<>>
    /\ LET line == Head(chatLines)
           jsonString == substring(line, 6, Len(line))
       IN  IF startsWith(line, DataPrefix) /\ jsonString # <<>>
           THEN IF JSONparse(jsonString) # <<>>
                THEN /\ Yield(JSONparse(jsonString)[1])
                     /\ chatLines' = Tail(chatLines)
                ELSE /\ chatEvents' = Append(chatEvents, [kind |-> "skipped", text |-> <<>>])
                     /\ chatLines' = afterBadChunk(chatLines)
                     /\ UNCHANGED <<currentText, chatMessages>>
           ELSE /\ chatLines' = Tail(chatLines)
                /\ UNCHANGED <<currentText, chatMessages, chatEvents>>
    /\ UNCHANGED <<chatBuild, chatInput, chatIsLoading, isThinkingMode, chatPhase,
                   chatModelId, toWrite, wire, chatWritten, dateNow>>

\* the direct build: the SDK's stream gives its next chunk to the consumer
DirectChunk ==
    /\ chatBuild = "direct"
    /\ chatPhase = "streaming"
    /\ toWrite # <<>>
    /\ Yield(Chunk(Head(toWrite).text))
    /\ toWrite' = Tail(toWrite)
    /\ UNCHANGED <<chatBuild, chatInput, chatIsLoading, isThinkingMode, chatPhase,
                   chatModelId, wire, chatLines, chatWritten, dateNow>>

\* the stream is done: the loop ends and finally runs
StreamEnd ==
    /\ chatPhase = "streaming"
    /\ toWrite = <<>>
    /\ wire = <<>>
    /\ chatLines = <<>>
    /\ chatIsLoading' = FALSE
    /\ chatPhase' = "idle"
    /\ chatEvents' = Append(chatEvents, [kind |-> "end", text |-> <<>>])
    /\ UNCHANGED <<chatBuild, chatMessages, chatInput, isThinkingMode, chatModelId,
                   currentText, toWrite, wire, chatLines, chatWritten, dateNow>>

\* the stream throws (fetch or reader.read() rejects, the SDK's stream
\* fails): catch and finally of handleSendMessage
StreamFails ==
    /\ chatPhase = "streaming"
    /\ chatLines = <<>>
    /\ chatMessages' = withText(chatMessages, chatModelId, SomethingWentWrong)
    /\ chatIsLoading' = FALSE
    /\ chatPhase' = "idle"
    /\ toWrite' = <<>>
    /\ wire' = <<>>
    /\ chatEvents' = Append(chatEvents, [kind |-> "failed", text |-> <<>>])
    /\ UNCHANGED <<chatBuild, chatInput, isThinkingMode, chatModelId, currentText,
                   chatLines, chatWritten, dateNow>>

restOfChat == <<pollerVars, startedBy, mergedFirst, freshVars, extractVars, newsVars,
                formVars, tagVars, sourceVars, tubeVars>>

NextChat ==
    \/ \E text \in ChatInputs : TypeChat(text) /\ UNCHANGED restOfChat
    \/ ToggleThinking /\ UNCHANGED restOfChat
    \/ \E stream \in StreamsOf(IF chatBuild = "proxy" THEN Arrivals
                                ELSE { a \in Arrivals : a.good }) :
           handleSendMessage(stream) /\ UNCHANGED restOfChat
    \/ \E text \in ComplexAnswers : ComplexArrive(text) /\ UNCHANGED restOfChat
    \/ RelayWrite /\ UNCHANGED restOfChat
    \/ \E n \in 1..Len(wire) : Read(n) /\ UNCHANGED restOfChat
    \/ ProcessLine /\ UNCHANGED restOfChat
    \/ DirectChunk /\ UNCHANGED restOfChat
    \/ StreamEnd /\ UNCHANGED restOfChat
    \/ StreamFails /\ UNCHANGED restOfChat

SpecChat == InitChat /\ [][NextChat]_vars

\* ------------------------------------------------------------ C25
\* the concatenation of texts
RECURSIVE Concat(_)
Concat(texts) == IF texts = <<>> THEN <<>> ELSE Head(texts) \o Concat(Tail(texts))

\* the texts of the chunks the consumer has received, in arrival order
ReceivedTexts(events) ==
    LET chunks == SelectSeq(events, LAMBDA e : e.kind = "chunk")
    IN  [k \in 1..Len(chunks) |-> chunks[k].text]

\* the step hands a chunk to the consumer, ends the stream, skips a payload
ReceivesChunk ==
    /\ Len(chatEvents') = Len(chatEvents) + 1
    /\ chatEvents'[Len(chatEvents')].kind = "chunk"
EndsStream ==
    /\ Len(chatEvents') = Len(chatEvents) + 1
    /\ chatEvents'[Len(chatEvents')].kind = "end"
SkipsPayload ==
    /\ Len(chatEvents') = Len(chatEvents) + 1
    /\ chatEvents'[Len(chatEvents')].kind = "skipped"

\* C25: in every step that hands a chunk to the consumer, the assistant
\* message (the last of the list) comes to hold the concatenation, in
\* arrival order, of the texts of all chunks received so far, which is its
\* text before the step followed by the text of this chunk, and every other
\* message is as before; in the step that ends the stream no message changes.
C25_PublishedTextAccumulates ==
    [][ /\ ReceivesChunk =>
              LET m == Len(chatMessages)
              IN  /\ Len(chatMessages') = m
                  /\ chatMessages'[m].role = "model"
                  /\ chatMessages'[m].id = chatMessages[m].id
                  /\ chatMessages'[m].text = Concat(ReceivedTexts(chatEvents'))
                  /\ chatMessages'[m].text =
                         chatMessages[m].text \o chatEvents'[Len(chatEvents')].text
                  /\ \A k \in 1..(m - 1) : chatMessages'[k] = chatMessages[k]
        /\ EndsStream => chatMessages' = chatMessages
      ]_vars

\* C25 witness: the second response of a conversation has ended after its
\* two chunks, and its message holds both texts
C25_Witness ==
    /\ Len(chatMessages) = 4
    /\ Len(chatEvents) = 3
    /\ chatEvents[1].kind = "chunk"
    /\ chatEvents[2].kind = "chunk"
    /\ chatEvents[3].kind = "end"
    /\ chatMessages[4].text = chatEvents[1].text \o chatEvents[2].text
    /\ chatEvents[1].text # chatEvents[2].text

\* ------------------------------------------------------------ C26
\* a line that carries the frame of a chunk with a text
WellFormedLine(line) == \E t \in ChunkTexts : line = DataPrefix \o JSONstringify(Chunk(t))

\* C26: the step that meets a payload JSON.parse rejects changes no message
\* and leaves the stream open, with the rest of the read's lines and what
\* is still to arrive untouched; and after such a payload, every step that
\* looks at the line of a well-formed frame appends that frame's text to
\* the assistant message.
C26_MalformedFrameSkipped ==
    [][ /\ SkipsPayload =>
              /\ chatMessages' = chatMessages
              /\ currentText' = currentText
              /\ chatPhase' = "streaming"
              /\ chatIsLoading'
              /\ chatLines' = Tail(chatLines)
              /\ wire' = wire
              /\ toWrite' = toWrite
        /\ /\ \E k \in 1..Len(chatEvents) : chatEvents[k].kind = "skipped"
           /\ chatLines # <<>>
           /\ chatLines' = Tail(chatLines)
           /\ WellFormedLine(Head(chatLines))
           => /\ ReceivesChunk
              /\ Head(chatLines) =
                     DataPrefix \o JSONstringify(Chunk(chatEvents'[Len(chatEvents')].text))
              /\ chatMessages'[Len(chatMessages')].text =
                     chatMessages[Len(chatMessages)].text
                         \o chatEvents'[Len(chatEvents')].text
      ]_vars

\* C26 witness: a payload was skipped, a chunk was received after it, and
\* the stream has ended with that chunk's text in the message
C26_Witness ==
    /\ Len(chatEvents) = 3
    /\ chatEvents[1].kind = "skipped"
    /\ chatEvents[2].kind = "chunk"
    /\ chatEvents[3].kind = "end"
    /\ chatMessages[Len(chatMessages)].text = chatEvents[2].text

\* ------------------------------------------------------------ C29
\* the text of the assistant message of the latest streamed response
StreamedText ==
    LET k == CHOOSE i \in 1..Len(chatMessages) :
                 chatMessages[i].role = "model" /\ chatMessages[i].id = chatModelId
    IN  chatMessages[k].text

\* C29: when a response streamed through the relay has ended, and every
\* frame the relay wrote carried a chunk, the assistant message holds the
\* concatenation, in order, of the texts of all these frames, wherever the
\* read boundaries fell.
C29_NoFrameLostToReadBoundaries ==
    /\ chatBuild = "proxy"
    /\ chatPhase = "idle"
    /\ chatEvents # <<>>
    /\ chatEvents[Len(chatEvents)].kind = "end"
    /\ \A k \in 1..Len(chatWritten) : chatWritten[k].good
    => StreamedText = Concat([k \in 1..Len(chatWritten) |-> chatWritten[k].text])

====
